---- MODULE Spec2Model ----
(***************************************************************************)
(* A model of src/core/vscore.cpp: the Memory Pool (MemoryUse), Plane Data *)
(* and frames (VSPlaneData, VSFrameRef), the node and Core lifecycle       *)
(* (VSNode, VSNodeRef, VSCore) and node creation, plugin functions and     *)
(* their argument strings (VSPluginFunction, VSPlugin), the plugin         *)
(* registry, the message handlers and the per-node serialization of the    *)
(* scheduler.                                                              *)
(***************************************************************************)
EXTENDS Integers, Sequences, FiniteSets, TLC

VARIABLES
    memory,     \* the MemoryUse object: used, freeOnZero, buffers, unusedBufferSize, maxMemoryUse, ...
    heap,       \* the blocks of the OS allocator: state and BlockHeader of each address
    planes,     \* the VSPlaneData objects
    frames,     \* the VSFrameRef objects
    guardSpace, \* VSFrameRef::guardSpace, fixed by the build (VS_FRAME_GUARD)
    threads,    \* the threads that use the pool: where each is in subtract or signalFree
    core,       \* the VSCore object: numFilterInstances, coreFreed, ...
    nodes,      \* the VSNode objects
    refs,       \* the VSNodeRef objects, the output handles of the nodes
    freeDepth,  \* destroyFilterInstance's thread_local freeDepth
    nodeFreeList, \* destroyFilterInstance's thread_local nodeFreeList
    plugin,     \* one VSPlugin: funcs, readOnly, apiMajor, compat
    registry,   \* VSCore::plugins, pluginLock and the threads inside loadPlugin
    logger,     \* VSCore::messageHandlers, logMutex and the threads inside the log functions
    sched,      \* one node's requests and their contexts, its serialMutex and serialFrame, and the workers
    last        \* the operation that ran last, with its arguments and results

memVars == <<memory, heap, planes, frames, guardSpace>>

coreVars == <<core, nodes, refs, freeDepth, nodeFreeList>>

\* the objects of the plugin interface, the registry, the log and the scheduler
apiVars == <<plugin, registry, logger, sched>>

\* the objects of the pool, the frames and the node lifecycle
objVars == <<memory, heap, planes, frames, guardSpace, threads, core, nodes, refs,
             freeDepth, nodeFreeList>>

vars == <<memory, heap, planes, frames, guardSpace, threads, core, nodes, refs,
          freeDepth, nodeFreeList, plugin, registry, logger, sched, last>>

-----------------------------------------------------------------------------
(* Bounds of the model *)

MaxFrames == 2

MaxBlocks == 4

\* the threads that construct and destroy planes while the Core is deleted
MaxWorkers == 2

MaxNodes == 3

\* the nodes that are made while the life of the Core is followed
CoreNodes == 2

MaxRefs == 4

\* the holders one output handle is shared by
MaxHolders == 2

\* the filter-instance count the model lets failed creations run up to
MaxInstances == 4

(* Program constants *)

alignment == 32

VS_AUDIO_FRAME_SAMPLES == 3072

FrameIds == 1..MaxFrames

\* every live plane owns one block
PlaneIds == 1..MaxBlocks

BlockIds == 1..MaxBlocks

\* thread 0 deletes the Core; the others hold planes
ThreadIds == 0..MaxWorkers

Workers == 1..MaxWorkers

NodeIds == 1..MaxNodes

RefIds == 1..MaxRefs

\* the guard sizes of the two builds: VS_FRAME_GUARD off and on
GuardSpaces == {0, 32}

\* size_t is narrower than int64_t where pointers are 32 bits wide. The model
\* keeps the order of the two maxima: 2^31 - 2 stands for SIZE_MAX and 2^31 - 1
\* for an int64_t above it
SIZE_MAX == 2147483646

\* values handed to setMaxMemoryUse: none, a budget of 192 bytes, more than SIZE_MAX
Limits == {0, 192, 2147483647}

\* the limit the constructor sets where pointers are 32 bits wide: 1 GiB
DefaultLimit == 1024 * 1024 * 1024

Min(S) == CHOOSE x \in S : \A y \in S : x <= y

RECURSIVE Pow2(_)
Pow2(n) == IF n = 0 THEN 1 ELSE 2 * Pow2(n - 1)

\* x >> n
Shr(x, n) == x \div Pow2(n)

\* (x + (alignment - 1)) & ~(alignment - 1)
AlignUp(x) == ((x + (alignment - 1)) \div alignment) * alignment

-----------------------------------------------------------------------------
(* MemoryUse *)

\* the memory state the operators below transform; log collects, for the
\* operation in progress, the evictions freeBuffer made
CurState == [memory |-> memory, heap |-> heap, planes |-> planes, log |-> {}]

\* a bug isGoodFit could have: a block half as large again is taken for a fit
isGoodFit_half(requested, actual) == actual <= requested + requested \div 2

isGoodFit(requested, actual) == actual <= requested + requested \div 8

add(m, bytes) == [m EXCEPT !.used = @ + bytes]

freeMemory(h, ptr) == [h EXCEPT ![ptr] = [state |-> "os", size |-> 0]]

RECURSIVE freeAll(_, _)
freeAll(h, bufs) ==
    IF bufs = <<>> THEN h ELSE freeAll(freeMemory(h, Head(bufs).buf), Tail(bufs))

\* ~MemoryUse, run by "delete this": every freed block goes back to the OS
deleteMemoryUse(st) ==
    [st EXCEPT !.heap = freeAll(st.heap, st.memory.buffers),
               !.memory = [st.memory EXCEPT !.buffers = <<>>, !.deleted = @ + 1]]

\* used.fetch_sub(bytes)
fetch_sub(m, bytes) == [m EXCEPT !.used = @ - bytes]

\* the test of subtract: freeOnZero && !tmp
freesOnZero(freeOnZero, tmp) == freeOnZero /\ tmp = 0

\* subtract, run without another thread in between
subtract(st, bytes) ==
    LET tmp == st.memory.used - bytes
        st1 == [st EXCEPT !.memory = fetch_sub(@, bytes)]
    IN  IF freesOnZero(st.memory.freeOnZero, tmp) THEN deleteMemoryUse(st1) ELSE st1

\* signalFree, run without another thread in between
signalFree(st) ==
    LET st1 == [st EXCEPT !.memory.freeOnZero = TRUE]
    IN  IF st1.memory.used = 0 THEN deleteMemoryUse(st1) ELSE st1

\* a fresh block can be had from the OS
canAllocate(h) == \E b \in BlockIds : h[b].state = "os"

allocateMemory(h, bytes) ==
    LET ptr == Min({b \in BlockIds : h[b].state = "os"})
    IN  [heap |-> [h EXCEPT ![ptr] = [state |-> "inuse", size |-> bytes]], buf |-> ptr]

\* buffers.lower_bound(bytes): the first entry whose key is >= bytes, 0 for end()
lower_bound(bufs, bytes) ==
    LET hits == {i \in 1..Len(bufs) : bufs[i].size >= bytes}
    IN  IF hits = {} THEN 0 ELSE Min(hits)

\* a bug erase could have: the first entry goes, whatever the iterator
erase_begin(bufs, i) == Tail(bufs)

erase(bufs, i) == SubSeq(bufs, 1, i - 1) \o SubSeq(bufs, i + 1, Len(bufs))

\* std::multimap::emplace: after the last entry whose key is <= the new key
emplace(bufs, e) ==
    LET k == Cardinality({i \in 1..Len(bufs) : bufs[i].size <= e.size})
    IN  SubSeq(bufs, 1, k) \o <<e>> \o SubSeq(bufs, k + 1, Len(bufs))

\* allocBuffer reuses the block lower_bound finds when it is a good fit
reuses(m, bytes) ==
    LET iter == lower_bound(m.buffers, bytes)
    IN  iter # 0 /\ isGoodFit(bytes, m.buffers[iter].size)

canAllocBuffer(st, bytes) == reuses(st.memory, bytes) \/ canAllocate(st.heap)

allocBuffer(st, bytes) ==
    LET m == st.memory
        iter == lower_bound(m.buffers, bytes)
    IN  IF reuses(m, bytes)
        THEN [st |-> [st EXCEPT !.memory.unusedBufferSize = @ - m.buffers[iter].size,
                                !.memory.buffers = erase(m.buffers, iter),
                                !.heap[m.buffers[iter].buf].state = "inuse"],
              buf |-> m.buffers[iter].buf]
        ELSE LET a == allocateMemory(st.heap, bytes)
             IN  [st |-> [st EXCEPT !.heap = a.heap], buf |-> a.buf]

\* a bug the loop condition could have: >= for >
overLimit_orEqual(memoryUsed, m) ==
    memoryUsed + m.unusedBufferSize >= m.maxMemoryUse /\ m.buffers # <<>>

\* a bug the loop condition could have: the freed blocks are not counted
overLimit_used(memoryUsed, m) ==
    memoryUsed > m.maxMemoryUse /\ m.buffers # <<>>

\* the condition of freeBuffer's eviction loop
overLimit(memoryUsed, m) ==
    memoryUsed + m.unusedBufferSize > m.maxMemoryUse /\ m.buffers # <<>>

\* the eviction loop of freeBuffer: every state it can end in, one per run of
\* the random choices
RECURSIVE evict(_, _)
evict(st, memoryUsed) ==
    IF overLimit(memoryUsed, st.memory)
    THEN UNION { evict([st EXCEPT !.log = @ \cup {[kind |-> "evict",
                                                   buf |-> st.memory.buffers[i].buf,
                                                   memoryUsed |-> memoryUsed,
                                                   unused |-> st.memory.unusedBufferSize,
                                                   limit |-> st.memory.maxMemoryUse,
                                                   others |-> 0, size |-> 0, released |-> 0]},
                                  !.memory.memoryWarningIssued = TRUE,
                                  !.memory.unusedBufferSize = @ - st.memory.buffers[i].size,
                                  !.memory.buffers = erase(st.memory.buffers, i),
                                  !.heap = freeMemory(st.heap, st.memory.buffers[i].buf)],
                       memoryUsed)
                 : i \in 1..Len(st.memory.buffers) }
    ELSE {st}

\* the usage freeBuffer reads: size_t memoryUsed = used
memoryUsedRead(m) == m.used

freeBuffer(st, buf) ==
    LET size == st.heap[buf].size
        st1 == [st EXCEPT !.memory.buffers = emplace(@, [size |-> size, buf |-> buf]),
                          !.memory.unusedBufferSize = @ + size,
                          !.heap[buf].state = "freed"]
    IN  evict(st1, memoryUsedRead(st.memory))

\* what the claim on the limit describes: every value is taken, clamped to SIZE_MAX
setMaxMemoryUse_clamped(m, bytes) ==
    [m EXCEPT !.maxMemoryUse = IF bytes > SIZE_MAX THEN SIZE_MAX ELSE bytes]

setMaxMemoryUse(m, bytes) ==
    IF bytes > 0 /\ bytes <= SIZE_MAX THEN [m EXCEPT !.maxMemoryUse = bytes] ELSE m

\* MemoryUse::getLimit
getLimit(m) == m.maxMemoryUse

\* MemoryUse::MemoryUse()
NewMemoryUse ==
    setMaxMemoryUse([used |-> 0, freeOnZero |-> FALSE, buffers |-> <<>>,
                     unusedBufferSize |-> 0, maxMemoryUse |-> 0,
                     memoryWarningIssued |-> FALSE, deleted |-> 0], DefaultLimit)

-----------------------------------------------------------------------------
(* VSPlaneData *)

NoPlane == [live |-> FALSE, refcount |-> 0, size |-> 0, data |-> 0]

freePlaneId(pl) == Min({p \in PlaneIds : ~pl[p].live})

canNewPlane(st, bytes) ==
    (\E p \in PlaneIds : ~st.planes[p].live) /\ canAllocBuffer(st, bytes)

\* VSPlaneData(size_t dataSize, MemoryUse &mem)
newPlaneData(st, dataSize, guard) ==
    LET size == dataSize + 2 * guard
        a == allocBuffer(st, size + 2 * guard)
        id == freePlaneId(st.planes)
    IN  [st |-> [a.st EXCEPT !.memory = add(@, size),
                             !.planes[id] = [live |-> TRUE, refcount |-> 1, size |-> size,
                                             data |-> a.buf]],
         plane |-> id]

\* a bug the copy constructor could have: the clone's bytes are not accounted
copyPlaneData_unaccounted(st, d) ==
    LET size == st.planes[d].size
        a == allocBuffer(st, size)
        id == freePlaneId(st.planes)
    IN  [st |-> [a.st EXCEPT !.planes[id] = [live |-> TRUE, refcount |-> 1, size |-> size,
                                             data |-> a.buf]],
         plane |-> id]

\* VSPlaneData(const VSPlaneData &d)
copyPlaneData(st, d) ==
    LET size == st.planes[d].size
        a == allocBuffer(st, size)
        id == freePlaneId(st.planes)
    IN  [st |-> [a.st EXCEPT !.memory = add(@, size),
                             !.planes[id] = [live |-> TRUE, refcount |-> 1, size |-> size,
                                             data |-> a.buf]],
         plane |-> id]

RECURSIVE SumSizes(_, _)
SumSizes(pl, S) ==
    IF S = {} THEN 0
    ELSE LET p == CHOOSE x \in S : TRUE IN pl[p].size + SumSizes(pl, S \ {p})

\* the bytes of the live planes other than p
liveOthers(pl, p) == SumSizes(pl, {q \in PlaneIds : pl[q].live /\ q # p})

\* the log of the destruction of plane p: its evictions, marked with p's
\* buffer and size and with the bytes of the planes that stay live, and the release
markLog(log, st, p) ==
    { IF e.released = 0
      THEN [e EXCEPT !.released = st.planes[p].data, !.size = st.planes[p].size,
                     !.others = liveOthers(st.planes, p)]
      ELSE e : e \in log }
    \cup {[kind |-> "release", buf |-> st.planes[p].data, memoryUsed |-> st.memory.used,
            unused |-> st.memory.unusedBufferSize + st.heap[st.planes[p].data].size,
            limit |-> st.memory.maxMemoryUse, others |-> liveOthers(st.planes, p),
            size |-> st.planes[p].size, released |-> st.planes[p].data]}

\* ~VSPlaneData: every state the destructor can end in
deletePlaneData(st, p) ==
    { subtract([s EXCEPT !.planes[p] = NoPlane, !.log = markLog(@, st, p)],
               st.planes[p].size)
      : s \in freeBuffer(st, st.planes[p].data) }

\* a bug unique could have: a plane two frames share taken for one owned alone
unique_two(pl, p) == pl[p].refcount <= 2

unique(pl, p) == pl[p].refcount = 1

add_ref(st, p) == [st EXCEPT !.planes[p].refcount = @ + 1]

release(st, p) ==
    IF st.planes[p].refcount - 1 = 0
    THEN deletePlaneData(st, p)
    ELSE {[st EXCEPT !.planes[p].refcount = @ - 1]}

RECURSIVE releaseAll(_, _)
releaseAll(sts, ps) ==
    IF ps = <<>> THEN sts
    ELSE releaseAll(UNION {release(s, Head(ps)) : s \in sts}, Tail(ps))

-----------------------------------------------------------------------------
(* The objects of the Core before anything is made *)

\* a thread outside subtract and signalFree, holding no plane
IdleThread == [pc |-> "idle", tmp |-> 0, plane |-> 0]

\* VSCore::VSCore: numFilterInstances(1), coreFreed(false)
NewCore == [numFilterInstances |-> 1, coreFreed |-> FALSE, deleted |-> 0,
            assertFailed |-> FALSE, terminated |-> FALSE]

\* vi holds the output descriptors: the video infos vi, or the audio infos ai
NoNode == [state |-> "none", refcount |-> 0, nodeType |-> "none", flags |-> {},
           hasFree |-> FALSE, deps |-> {}, vi |-> <<>>, destroyed |-> 0]

NoRef == [state |-> "none", refcount |-> 0, clip |-> 0, index |-> 0]

VAPOURSYNTH3_API_MAJOR == 3

VAPOURSYNTH_API_MAJOR == 4

\* a VSPlugin after configPlugin: no function yet, not read only
NewPlugin(apiMajor, compat) ==
    [funcs |-> {}, readOnly |-> FALSE, apiMajor |-> apiMajor, compat |-> compat]

\* the plugins VSCore::VSCore inserts
InternalPlugins ==
    {[id |-> "com.vapoursynth.std", ns |-> "std"],
     [id |-> "com.vapoursynth.resize", ns |-> "resize"],
     [id |-> "com.vapoursynth.text", ns |-> "text"]}

\* a thread outside loadPlugin
NoLoad == [pc |-> "idle", id |-> "", ns |-> ""]

\* plugins and pluginLock after VSCore::VSCore; -1 is a mutex nobody holds
NewRegistry ==
    [plugins |-> InternalPlugins, pluginLock |-> -1, loading |-> [t \in ThreadIds |-> NoLoad]]

\* a thread outside addMessageHandler, removeMessageHandler and logMessage
NoCall == [pc |-> "idle", fn |-> "", type |-> "", rec |-> 0, registered |-> {},
           notified |-> <<>>]

\* messageHandlers and logMutex after VSCore::VSCore
NewLogger ==
    [messageHandlers |-> {}, logMutex |-> -1, calls |-> [t \in ThreadIds |-> NoCall]]

\* the frame numbers of the requests that are followed
MaxFrameNumber == 2

FrameNumbers == 0..MaxFrameNumber

\* the VSFrameContext of a request as its constructor leaves it: no error
NewFrameContext == [error |-> FALSE, errorMessage |-> ""]

\* a node as its constructor leaves it: serialFrame(-1), no request, serialMutex free
NewSched(filterMode, flags) ==
    [filterMode |-> filterMode, flags |-> flags, serialMutex |-> -1, serialFrame |-> -1,
     tasks |-> [n \in FrameNumbers |-> "none"], running |-> [t \in Workers |-> -1],
     reason |-> [t \in Workers |-> ""], submitted |-> <<>>, completed |-> <<>>,
     frameContext |-> [n \in FrameNumbers |-> NewFrameContext]]

\* the plugin interface, the registry, the log and the scheduler at rest
InitApi ==
    /\ plugin = NewPlugin(VAPOURSYNTH_API_MAJOR, FALSE)
    /\ registry = NewRegistry
    /\ logger = NewLogger
    /\ sched = NewSched("fmParallel", {})

-----------------------------------------------------------------------------
(* VSFrameRef *)

NoFrame == [live |-> FALSE, contentType |-> "none", numPlanes |-> 0, data |-> <<0, 0, 0>>,
            stride |-> <<0, 0, 0>>, width |-> 0, height |-> 0,
            subSamplingW |-> 0, subSamplingH |-> 0]

\* the video formats frames are made of: Gray8 and YUV420P8
VideoFormats ==
    { [bytesPerSample |-> 1, subSamplingW |-> 0, subSamplingH |-> 0, numPlanes |-> 1],
      [bytesPerSample |-> 1, subSamplingW |-> 1, subSamplingH |-> 1, numPlanes |-> 3] }

\* the audio format: 16-bit stereo
AudioFormats == { [bytesPerSample |-> 2, numChannels |-> 2] }

Widths == {16}

Heights == {2}

strides(f, width) ==
    LET plane23 == AlignUp(Shr(width, f.subSamplingW) * f.bytesPerSample)
    IN  <<AlignUp(width * f.bytesPerSample),
          IF f.numPlanes = 3 THEN plane23 ELSE 0,
          IF f.numPlanes = 3 THEN plane23 ELSE 0>>

\* VSFrameRef::getWidth(plane), getHeight(plane)
getWidth(fr, plane) == Shr(fr.width, IF plane > 0 THEN fr.subSamplingW ELSE 0)

getHeight(fr, plane) == Shr(fr.height, IF plane > 0 THEN fr.subSamplingH ELSE 0)

\* the planes a frame refers to, in the order the destructor releases them
planesOf(fr) ==
    IF fr.data[2] # 0 THEN <<fr.data[1], fr.data[2], fr.data[3]>> ELSE <<fr.data[1]>>

\* a pointer is a block and an offset into it
getReadPtr(pl, fr, plane, guard) ==
    IF fr.contentType = "video"
    THEN [buf |-> pl[fr.data[plane + 1]].data, off |-> guard]
    ELSE [buf |-> pl[fr.data[1]].data, off |-> guard + plane * fr.stride[1]]

\* the plane data a frame's plane pointer names
planeOf(fr, plane) == IF fr.contentType = "video" THEN fr.data[plane + 1] ELSE fr.data[1]

freeFrameId == Min({f \in FrameIds : ~frames[f].live})

osBlocks(h) == Cardinality({b \in BlockIds : h[b].state = "os"})

deadPlanes(pl) == Cardinality({p \in PlaneIds : ~pl[p].live})

\* the memory state and the frames after an operation
Commit(st, fr, l) ==
    /\ memory' = st.memory
    /\ heap' = st.heap
    /\ planes' = st.planes
    /\ frames' = fr
    /\ last' = l
    /\ UNCHANGED <<guardSpace, threads, coreVars, apiVars>>

Op(op, f, p, g, log) == [op |-> op, f |-> f, p |-> p, g |-> g, log |-> log]

\* the Core the frame is made through exists, and so does its pool
coreAlive == core.deleted = 0 /\ ~core.terminated

\* VSFrameRef(const VSVideoFormat &f, int width, int height, propSrc, core)
NewVideoFrame(f, width, height) ==
    /\ coreAlive
    /\ \E id \in FrameIds : ~frames[id].live
    /\ deadPlanes(planes) >= f.numPlanes /\ osBlocks(heap) >= f.numPlanes
    /\ LET stride == strides(f, width)
           size23 == stride[2] * Shr(height, f.subSamplingH)
           a0 == newPlaneData(CurState, stride[1] * height, guardSpace)
           a1 == newPlaneData(a0.st, size23, guardSpace)
           a2 == newPlaneData(a1.st, size23, guardSpace)
           id == freeFrameId
           fr == [live |-> TRUE, contentType |-> "video", numPlanes |-> f.numPlanes,
                  data |-> IF f.numPlanes = 3 THEN <<a0.plane, a1.plane, a2.plane>>
                           ELSE <<a0.plane, 0, 0>>,
                  stride |-> stride, width |-> width, height |-> height,
                  subSamplingW |-> f.subSamplingW, subSamplingH |-> f.subSamplingH]
       IN  Commit(IF f.numPlanes = 3 THEN a2.st ELSE a0.st,
                  [frames EXCEPT ![id] = fr], Op("newVideoFrame", id, 0, 0, {}))

\* the sources plane i of a new frame may be taken from: none (0), or plane q of
\* a live video frame whose plane q has the dimensions of plane i
planeSources(f, width, height, i) ==
    {<<0, 0>>} \cup
    { <<src, q>> \in FrameIds \X (0..2) :
        /\ frames[src].live /\ frames[src].contentType = "video"
        /\ q < frames[src].numPlanes
        /\ getHeight(frames[src], q) = Shr(height, IF i > 0 THEN f.subSamplingH ELSE 0)
        /\ getWidth(frames[src], q) = Shr(width, IF i > 0 THEN f.subSamplingW ELSE 0) }

\* one round of the constructor's loop over the planes
RECURSIVE shareOrAllocate(_, _, _, _, _, _)
shareOrAllocate(acc, f, stride, height, srcs, i) ==
    IF i >= f.numPlanes THEN acc
    ELSE IF srcs[i + 1][1] # 0
         THEN LET d == frames[srcs[i + 1][1]].data[srcs[i + 1][2] + 1]
              IN  shareOrAllocate([st |-> add_ref(acc.st, d),
                                   data |-> [acc.data EXCEPT ![i + 1] = d]],
                                  f, stride, height, srcs, i + 1)
         ELSE LET a == newPlaneData(acc.st,
                                    IF i = 0 THEN stride[1] * height
                                    ELSE stride[i + 1] * Shr(height, f.subSamplingH),
                                    guardSpace)
              IN  shareOrAllocate([st |-> a.st, data |-> [acc.data EXCEPT ![i + 1] = a.plane]],
                                  f, stride, height, srcs, i + 1)

\* VSFrameRef(f, width, height, planeSrc, plane, propSrc, core); a plane that does
\* not exist in its source or does not match it in size is a fatal error
NewVideoFrame2(f, width, height, srcs) ==
    /\ coreAlive
    /\ \E id \in FrameIds : ~frames[id].live
    /\ deadPlanes(planes) >= f.numPlanes /\ osBlocks(heap) >= f.numPlanes
    /\ \E i \in 1..f.numPlanes : srcs[i][1] # 0
    /\ \A i \in (f.numPlanes + 1)..3 : srcs[i] = <<0, 0>>
    /\ LET stride == strides(f, width)
           r == shareOrAllocate([st |-> CurState, data |-> <<0, 0, 0>>],
                                f, stride, height, srcs, 0)
           id == freeFrameId
           fr == [live |-> TRUE, contentType |-> "video", numPlanes |-> f.numPlanes,
                  data |-> r.data, stride |-> stride, width |-> width, height |-> height,
                  subSamplingW |-> f.subSamplingW, subSamplingH |-> f.subSamplingH]
       IN  Commit(r.st, [frames EXCEPT ![id] = fr], Op("newVideoFrame2", id, 0, 0, {}))

\* VSFrameRef(const VSAudioFormat &f, int numSamples, propSrc, core)
NewAudioFrame(f, numSamples) ==
    /\ coreAlive
    /\ \E id \in FrameIds : ~frames[id].live
    /\ deadPlanes(planes) >= 1 /\ osBlocks(heap) >= 1
    /\ LET stride0 == f.bytesPerSample * VS_AUDIO_FRAME_SAMPLES
           a == newPlaneData(CurState, stride0 * f.numChannels, guardSpace)
           id == freeFrameId
           fr == [live |-> TRUE, contentType |-> "audio", numPlanes |-> f.numChannels,
                  data |-> <<a.plane, 0, 0>>, stride |-> <<stride0, 0, 0>>,
                  width |-> numSamples, height |-> 0,
                  subSamplingW |-> 0, subSamplingH |-> 0]
       IN  Commit(a.st, [frames EXCEPT ![id] = fr], Op("newAudioFrame", id, 0, 0, {}))

\* VSFrameRef(const VSFrameRef &f): copyFrame
CopyFrame(f) ==
    /\ frames[f].live
    /\ \E id \in FrameIds : ~frames[id].live
    /\ LET st0 == add_ref(CurState, frames[f].data[1])
           st1 == IF frames[f].data[2] # 0
                  THEN add_ref(add_ref(st0, frames[f].data[2]), frames[f].data[3])
                  ELSE st0
           id == freeFrameId
       IN  Commit(st1, [frames EXCEPT ![id] = frames[f]], Op("copyFrame", f, 0, id, {}))

\* a bug getWritePtr could have: the plane data is cloned whoever owns it
clones_always(pl, d) == TRUE

\* whether getWritePtr finds the plane data shared and clones it
clones(pl, d) == ~unique(pl, d)

\* a bug getWritePtr could have: every plane pointer of the frame is set
setData_every(fr, slot, d) == [fr EXCEPT !.data = [i \in DOMAIN @ |-> IF @[i] # 0 THEN d ELSE 0]]

\* data[plane] = new VSPlaneData(*data[plane])
setData(fr, slot, d) == [fr EXCEPT !.data[slot] = d]

\* VSFrameRef::getWritePtr(plane)
GetWritePtr(g, plane) ==
    /\ frames[g].live /\ plane < frames[g].numPlanes
    /\ LET slot == IF frames[g].contentType = "video" THEN plane + 1 ELSE 1
           old == frames[g].data[slot]
       IN  IF clones(planes, old)
           THEN /\ deadPlanes(planes) >= 1 /\ canAllocBuffer(CurState, planes[old].size)
                /\ LET c == copyPlaneData(CurState, old)
                   IN  \E st \in release(c.st, old) :
                          Commit(st, [frames EXCEPT ![g] = setData(@, slot, c.plane)],
                                 Op("getWritePtr", g, plane, 1, st.log))
           ELSE Commit(CurState, frames, Op("getWritePtr", g, plane, 0, {}))

\* ~VSFrameRef, when the last reference to the frame goes
FreeFrame(f) ==
    /\ frames[f].live
    /\ \E st \in releaseAll({CurState}, planesOf(frames[f])) :
          Commit(st, [frames EXCEPT ![f] = NoFrame], Op("freeFrame", f, 0, 0, st.log))

SetMaxMemoryUse(bytes) ==
    /\ coreAlive
    /\ memory' = setMaxMemoryUse(memory, bytes)
    /\ last' = Op("setMaxMemoryUse", 0, 0, bytes, {})
    /\ UNCHANGED <<heap, planes, frames, guardSpace, threads, coreVars, apiVars>>

\* the state after new VSCore: no frame, no node, no thread at work
InitObjects ==
    /\ memory = NewMemoryUse
    /\ heap = [b \in BlockIds |-> [state |-> "os", size |-> 0]]
    /\ planes = [p \in PlaneIds |-> NoPlane]
    /\ frames = [f \in FrameIds |-> NoFrame]
    /\ threads = [t \in ThreadIds |-> IdleThread]
    /\ core = NewCore
    /\ nodes = [n \in NodeIds |-> NoNode]
    /\ refs = [r \in RefIds |-> NoRef]
    /\ freeDepth = 0
    /\ nodeFreeList = <<>>
    /\ last = Op("init", 0, 0, 0, {})

InitMem == InitObjects /\ InitApi /\ guardSpace \in GuardSpaces

NextMem ==
    \/ \E f \in VideoFormats, w \in Widths, h \in Heights : NewVideoFrame(f, w, h)
    \/ \E f \in VideoFormats, w \in Widths, h \in Heights :
          \E s1 \in planeSources(f, w, h, 0), s2 \in planeSources(f, w, h, 1),
             s3 \in planeSources(f, w, h, 2) : NewVideoFrame2(f, w, h, <<s1, s2, s3>>)
    \/ \E f \in AudioFormats : NewAudioFrame(f, VS_AUDIO_FRAME_SAMPLES)
    \/ \E f \in FrameIds : CopyFrame(f)
    \/ \E g \in FrameIds, p \in 0..2 : GetWritePtr(g, p)
    \/ \E f \in FrameIds : FreeFrame(f)
    \/ \E b \in Limits : SetMaxMemoryUse(b)

SpecMem == InitMem /\ [][NextMem]_vars

-----------------------------------------------------------------------------
(* The Memory Pool under threads: planes are constructed and destroyed by the  *)
(* workers while thread 0 deletes the Core. subtract and signalFree take no   *)
(* lock, so each of their reads and writes is a step of its own; allocBuffer  *)
(* and freeBuffer run under the pool's mutex.                                  *)

\* what a thread reads from the pool's fields: the field while the pool exists,
\* and whatever the freed memory holds once the pool is deleted
readUsed(m) == IF m.deleted = 0 THEN {m.used} ELSE {0, m.used}

readFreeOnZero(m) == IF m.deleted = 0 THEN {m.freeOnZero} ELSE BOOLEAN

PoolStep(m, h, pl, th, l) ==
    /\ memory' = m
    /\ heap' = h
    /\ planes' = pl
    /\ threads' = th
    /\ last' = l
    /\ UNCHANGED <<frames, guardSpace, nodes, refs, freeDepth, nodeFreeList, apiVars>>

\* a worker constructs a plane through the Core: VSPlaneData(dataSize, mem)
PlaneNew(w, dataSize) ==
    /\ coreAlive
    /\ threads[w] = IdleThread
    /\ canNewPlane(CurState, dataSize + 4 * guardSpace)
    /\ LET a == newPlaneData(CurState, dataSize, guardSpace)
       IN  /\ PoolStep(a.st.memory, a.st.heap, a.st.planes,
                       [threads EXCEPT ![w].plane = a.plane],
                       Op("planeNew", w, a.plane, memory.deleted, {}))
           /\ UNCHANGED core

\* a worker clones the plane another worker holds: VSPlaneData(const VSPlaneData &)
PlaneCopy(w, v) ==
    /\ threads[w] = IdleThread
    /\ threads[v].pc = "idle" /\ threads[v].plane # 0
    /\ canNewPlane(CurState, planes[threads[v].plane].size)
    /\ LET a == copyPlaneData(CurState, threads[v].plane)
       IN  /\ PoolStep(a.st.memory, a.st.heap, a.st.planes,
                       [threads EXCEPT ![w].plane = a.plane],
                       Op("planeCopy", w, a.plane, memory.deleted, {}))
           /\ UNCHANGED core

\* ~VSPlaneData: mem.freeBuffer(data)
PlaneFree_freeBuffer(w) ==
    /\ threads[w].pc = "idle" /\ threads[w].plane # 0
    /\ \E s \in freeBuffer(CurState, planes[threads[w].plane].data) :
          PoolStep(s.memory, s.heap, planes, [threads EXCEPT ![w].pc = "fetch_sub"],
                   Op("freeBuffer", w, threads[w].plane, memory.deleted, {}))
    /\ UNCHANGED core

\* subtract: size_t tmp = used.fetch_sub(bytes) - bytes
PlaneFree_fetch_sub(w) ==
    /\ threads[w].pc = "fetch_sub"
    /\ LET bytes == planes[threads[w].plane].size
       IN  \E old \in readUsed(memory) :
              PoolStep(fetch_sub(memory, bytes), heap, planes,
                       [threads EXCEPT ![w].pc = "check", ![w].tmp = old - bytes],
                       Op("fetch_sub", w, threads[w].plane, memory.deleted, {}))
    /\ UNCHANGED core

\* subtract: if (freeOnZero && !tmp); without the delete the destructor is done
PlaneFree_check(w) ==
    /\ threads[w].pc = "check"
    /\ \E fz \in readFreeOnZero(memory) :
          IF freesOnZero(fz, threads[w].tmp)
          THEN PoolStep(memory, heap, planes, [threads EXCEPT ![w].pc = "delete"],
                        Op("check", w, threads[w].plane, memory.deleted, {}))
          ELSE PoolStep(memory, heap, [planes EXCEPT ![threads[w].plane] = NoPlane],
                        [threads EXCEPT ![w] = IdleThread],
                        Op("check", w, threads[w].plane, memory.deleted, {}))
    /\ UNCHANGED core

\* subtract: delete this
PlaneFree_delete(w) ==
    /\ threads[w].pc = "delete"
    /\ LET s == deleteMemoryUse(CurState)
       IN  PoolStep(s.memory, s.heap, [planes EXCEPT ![threads[w].plane] = NoPlane],
                    [threads EXCEPT ![w] = IdleThread],
                    Op("delete", w, threads[w].plane, memory.deleted, {}))
    /\ UNCHANGED core

\* freeCore drops the last filter instance and ~VSCore begins:
\* memory->signalFree() sets freeOnZero = true
SignalFree_set ==
    /\ coreAlive
    /\ threads[0].pc = "idle"
    /\ core' = [core EXCEPT !.coreFreed = TRUE, !.numFilterInstances = 0, !.deleted = 1]
    /\ PoolStep([memory EXCEPT !.freeOnZero = TRUE], heap, planes,
                [threads EXCEPT ![0].pc = "read"],
                Op("signalFree", 0, 0, memory.deleted, {}))

\* signalFree: if (!used)
SignalFree_read ==
    /\ threads[0].pc = "read"
    /\ \E u \in readUsed(memory) :
          PoolStep(memory, heap, planes,
                   [threads EXCEPT ![0].pc = IF u = 0 THEN "delete" ELSE "done"],
                   Op("read", 0, 0, memory.deleted, {}))
    /\ UNCHANGED core

\* signalFree: delete this
SignalFree_delete ==
    /\ threads[0].pc = "delete"
    /\ LET s == deleteMemoryUse(CurState)
       IN  PoolStep(s.memory, s.heap, planes, [threads EXCEPT ![0].pc = "done"],
                    Op("delete", 0, 0, memory.deleted, {}))
    /\ UNCHANGED core

\* the sizes of the planes the workers construct
PlaneSizes == {64, 96}

InitPool == InitObjects /\ InitApi /\ guardSpace = 0

NextPool ==
    \/ \E w \in Workers, n \in PlaneSizes : PlaneNew(w, n)
    \/ \E w \in Workers, v \in Workers : PlaneCopy(w, v)
    \/ \E w \in Workers : PlaneFree_freeBuffer(w)
    \/ \E w \in Workers : PlaneFree_fetch_sub(w)
    \/ \E w \in Workers : PlaneFree_check(w)
    \/ \E w \in Workers : PlaneFree_delete(w)
    \/ SignalFree_set
    \/ SignalFree_read
    \/ SignalFree_delete

SpecPool == InitPool /\ [][NextPool]_vars

-----------------------------------------------------------------------------
(* Validation of what a filter declares *)

INT_MAX == 2147483647

RECURSIVE GCD(_, _)
GCD(a, b) == IF b = 0 THEN a ELSE GCD(b, a % b)

\* reduceRational(&num, &den): both are divided by their greatest common divisor
reduceRational(num, den) ==
    LET g == GCD(num, den)
    IN  IF g = 0 THEN <<num, den>> ELSE <<num \div g, den \div g>>

ColorFamilies == {"cfUndefined", "cfGray", "cfYUV", "cfRGB", "cfCompatBGR32", "cfCompatYUY2"}

SampleTypes == {"stInteger", "stFloat"}

isValidVideoFormat(colorFamily, sampleType, bitsPerSample, subSamplingW, subSamplingH) ==
    IF colorFamily \notin ColorFamilies THEN FALSE
    ELSE IF colorFamily = "cfUndefined"
            /\ (subSamplingH # 0 \/ subSamplingW # 0 \/ bitsPerSample # 0
                \/ sampleType # "stInteger") THEN TRUE
    ELSE IF sampleType \notin SampleTypes THEN FALSE
    ELSE IF sampleType = "stFloat" /\ bitsPerSample # 16 /\ bitsPerSample # 32 THEN FALSE
    ELSE IF subSamplingH < 0 \/ subSamplingW < 0 \/ subSamplingH > 4 \/ subSamplingW > 4
         THEN FALSE
    ELSE IF colorFamily \in {"cfRGB", "cfGray"} /\ (subSamplingH # 0 \/ subSamplingW # 0)
         THEN FALSE
    ELSE IF bitsPerSample < 8 \/ bitsPerSample > 32 THEN FALSE
    ELSE IF colorFamily = "cfCompatBGR32"
            /\ (subSamplingH # 0 \/ subSamplingW # 0 \/ bitsPerSample # 32
                \/ sampleType # "stInteger") THEN FALSE
    ELSE IF colorFamily = "cfCompatYUY2"
            /\ (subSamplingH # 0 \/ subSamplingW # 1 \/ bitsPerSample # 16
                \/ sampleType # "stInteger") THEN FALSE
    ELSE TRUE

isValidAudioFormat(sampleType, bitsPerSample, channelLayout) ==
    IF sampleType \notin SampleTypes THEN FALSE
    ELSE IF bitsPerSample < 16 \/ bitsPerSample > 32 THEN FALSE
    ELSE IF sampleType = "stFloat" /\ bitsPerSample # 32 THEN FALSE
    ELSE IF channelLayout = 0 THEN FALSE
    ELSE TRUE

\* a bug isValidVideoInfo could have: width and height are not coupled
isValidVideoInfo_uncoupled(vi) ==
    IF ~isValidVideoFormat(vi.format.colorFamily, vi.format.sampleType,
                           vi.format.bitsPerSample, vi.format.subSamplingW,
                           vi.format.subSamplingH) THEN FALSE
    ELSE IF vi.fpsDen < 0 \/ vi.fpsNum < 0 \/ vi.height < 0 \/ vi.width < 0
            \/ vi.numFrames < 1 THEN FALSE
    ELSE IF reduceRational(vi.fpsNum, vi.fpsDen) # <<vi.fpsNum, vi.fpsDen>> THEN FALSE
    ELSE TRUE

isValidVideoInfo(vi) ==
    IF ~isValidVideoFormat(vi.format.colorFamily, vi.format.sampleType,
                           vi.format.bitsPerSample, vi.format.subSamplingW,
                           vi.format.subSamplingH) THEN FALSE
    ELSE IF vi.fpsDen < 0 \/ vi.fpsNum < 0 \/ vi.height < 0 \/ vi.width < 0
            \/ vi.numFrames < 1 THEN FALSE
    ELSE IF reduceRational(vi.fpsNum, vi.fpsDen) # <<vi.fpsNum, vi.fpsDen>> THEN FALSE
    ELSE IF (vi.height # 0) # (vi.width # 0) THEN FALSE
    ELSE TRUE

\* an int64_t sample count is kept as hi * VS_AUDIO_FRAME_SAMPLES + lo with
\* 0 <= lo < VS_AUDIO_FRAME_SAMPLES, since it does not fit the integers of the model
samplesBelowOne(n) == n.hi < 0 \/ (n.hi = 0 /\ n.lo = 0)

\* numSamples > INT_MAX * VS_AUDIO_FRAME_SAMPLES
samplesAboveMax(n) == n.hi = INT_MAX /\ n.lo > 0

\* a bug the constructor could have: the last, shorter frame is not counted
framesOfSamples_floor(n) == n.hi

\* (numSamples + VS_AUDIO_FRAME_SAMPLES - 1) / VS_AUDIO_FRAME_SAMPLES
framesOfSamples(n) == IF n.lo > 0 THEN n.hi + 1 ELSE n.hi

isValidAudioInfo(ai) ==
    IF ~isValidAudioFormat(ai.format.sampleType, ai.format.bitsPerSample,
                           ai.format.channelLayout) THEN FALSE
    ELSE IF samplesBelowOne(ai.numSamples) \/ ai.sampleRate < 1 THEN FALSE
    ELSE TRUE

-----------------------------------------------------------------------------
(* VSCore, VSNode and VSNodeRef: what the handlers do to the state st.         *)
(* st.log lists, in order, the calls of destroyFilterInstance, of filter free   *)
(* functions and of filterInstanceDestroyed the handler made; st.inFree counts the free functions that   *)
(* are executing; st.ub names the deleted nodes in whose freed memory a        *)
(* release finds the count at one.                                             *)

CoreState(ub) ==
    [memory |-> memory, heap |-> heap, core |-> core, nodes |-> nodes, refs |-> refs,
     freeDepth |-> freeDepth, nodeFreeList |-> nodeFreeList, inFree |-> 0,
     log |-> <<>>, ub |-> ub]

filterInstanceCreated(st) == [st EXCEPT !.core.numFilterInstances = @ + 1]

\* delete this: ~VSCore runs memory->signalFree()
deleteCore(st) == signalFree([st EXCEPT !.core.deleted = @ + 1])

\* a bug filterInstanceDestroyed could have: the Core goes with an instance left
filterInstanceDestroyed_early(st) ==
    LET n == st.core.numFilterInstances - 1
        st1 == [st EXCEPT !.core.numFilterInstances = n]
    IN  IF n <= 1 /\ st.core.deleted = 0 THEN deleteCore(st1) ELSE st1

\* assert(coreFreed) is compiled out of a release build: assertFailed records
\* that it would have failed
filterInstanceDestroyed(st) ==
    LET n == st.core.numFilterInstances - 1
        st1 == [st EXCEPT !.core.numFilterInstances = n]
    IN  IF n = 0
        THEN deleteCore([st1 EXCEPT !.core.assertFailed = @ \/ ~st.core.coreFreed])
        ELSE st1

\* a bug destroyFilterInstance could have: the list is drained at every depth
drains_nested(depth) == depth >= 1

\* if (freeDepth == 1)
drains(depth) == depth = 1

\* a bug the loop could have: nodeFreeList = nullptr, the rest of the list is lost
current_next_nullptr(list) == <<>>

\* nodeFreeList = current->next
current_next(list) == Tail(list)

\* the log with the call of filterInstanceDestroyed made for node n
decrement(st, n) ==
    [st EXCEPT !.log = Append(@, [kind |-> "decrement", node |-> n,
                                  freeDepth |-> st.freeDepth, inFree |-> st.inFree])]

\* the handles of the set S, lowest first
RECURSIVE inOrder(_)
inOrder(S) == IF S = {} THEN <<>> ELSE <<Min(S)>> \o inOrder(S \ {Min(S)})

RECURSIVE destroyFilterInstance(_, _)
RECURSIVE drain(_)
RECURSIVE freeFunc(_, _)
RECURSIVE releaseRefs(_, _)
RECURSIVE VSNodeRef_release(_, _)
RECURSIVE VSNode_release(_, _)
RECURSIVE deleteNode(_, _)

\* VSCore::destroyFilterInstance(node)
destroyFilterInstance(st, n) ==
    LET st1 == [st EXCEPT !.freeDepth = @ + 1,
                          !.log = Append(@, [kind |-> "destroy", node |-> n,
                                             freeDepth |-> st.freeDepth + 1,
                                             inFree |-> st.inFree])]
        st2 == IF st1.nodes[n].hasFree
               THEN [st1 EXCEPT !.nodeFreeList = <<n>> \o @]
               ELSE filterInstanceDestroyed(decrement(st1, n))
        st3 == IF drains(st2.freeDepth) THEN drain(st2) ELSE st2
    IN  [st3 EXCEPT !.freeDepth = @ - 1]

\* while (nodeFreeList) { ... current->freeFunc(...); filterInstanceDestroyed(); }
drain(st) ==
    IF st.nodeFreeList = <<>> THEN st
    ELSE LET current == Head(st.nodeFreeList)
             st1 == [st EXCEPT !.nodeFreeList = current_next(@)]
         IN  drain(filterInstanceDestroyed(decrement(freeFunc(st1, current), current)))

\* the free function of a filter: it releases the handles its instance data holds
freeFunc(st, n) ==
    LET st1 == [st EXCEPT !.log = Append(@, [kind |-> "free", node |-> n,
                                             freeDepth |-> st.freeDepth,
                                             inFree |-> st.inFree]),
                          !.inFree = @ + 1]
        st2 == releaseRefs(st1, inOrder(st.nodes[n].deps))
    IN  [st2 EXCEPT !.inFree = @ - 1]

releaseRefs(st, rs) ==
    IF rs = <<>> THEN st ELSE releaseRefs(VSNodeRef_release(st, Head(rs)), Tail(rs))

\* VSNodeRef::release
VSNodeRef_release(st, r) ==
    IF st.refs[r].refcount - 1 = 0
    THEN LET st1 == VSNode_release([st EXCEPT !.refs[r].refcount = 0], st.refs[r].clip)
         IN  [st1 EXCEPT !.refs[r].state = "deleted"]
    ELSE [st EXCEPT !.refs[r].refcount = @ - 1]

\* VSNode::release of handle r's node: if (--refcount == 0) delete this. On a
\* node that is deleted already the count is read from freed memory
VSNode_release(st, n) ==
    IF st.nodes[n].state = "live"
    THEN IF st.nodes[n].refcount - 1 = 0
         THEN deleteNode([st EXCEPT !.nodes[n].refcount = 0], n)
         ELSE [st EXCEPT !.nodes[n].refcount = @ - 1]
    ELSE IF n \in st.ub /\ st.nodes[n].destroyed < 2 THEN deleteNode(st, n) ELSE st

\* delete node: ~VSNode calls core->destroyFilterInstance(this)
deleteNode(st, n) ==
    destroyFilterInstance([st EXCEPT !.nodes[n].state = "destroyed",
                                     !.nodes[n].destroyed = @ + 1], n)

VSNodeRef_add_ref(st, r) == [st EXCEPT !.refs[r].refcount = @ + 1]

-----------------------------------------------------------------------------
(* The constructors of VSNode: each gives ok (no exception), fatal (the process *)
(* was terminated by logMessage(mtFatal)), the state and the node made         *)

throws(st) == [ok |-> FALSE, fatal |-> FALSE, st |-> st, node |-> NoNode]

\* flags & ~(nfNoCache | nfIsCache | nfMakeLinear | nfFrameReady)
unknownFlags(flags) == flags \ {"nfNoCache", "nfIsCache", "nfMakeLinear", "nfFrameReady"}

\* flags & ~(nfNoCache | nfIsCache | nfMakeLinear)
unknownFlags3(flags) == flags \ {"nfNoCache", "nfIsCache", "nfMakeLinear"}

\* (flags & nfIsCache) && !(flags & nfNoCache)
illegalCache(flags) == "nfIsCache" \in flags /\ "nfNoCache" \notin flags

made(st, node) == [ok |-> TRUE, fatal |-> FALSE, st |-> st, node |-> node]

\* VSNode(name, const VSVideoInfo *vi, numOutputs, ..., flags, ...)
VSNode_video(st, vi, numOutputs, flags, hasFree) ==
    IF unknownFlags(flags) # {} THEN throws(st)
    ELSE IF illegalCache(flags) THEN throws(st)
    ELSE IF numOutputs < 1 THEN throws(st)
    ELSE IF \E i \in 1..numOutputs : ~isValidVideoInfo(vi[i]) THEN throws(st)
    ELSE made(filterInstanceCreated(st),
              [state |-> "live", refcount |-> numOutputs, nodeType |-> "video",
               flags |-> flags, hasFree |-> hasFree, deps |-> {},
               vi |-> SubSeq(vi, 1, numOutputs), destroyed |-> 0])

\* VSNode(name, const VSAudioInfo *ai, numOutputs, ..., flags, ...)
VSNode_audio(st, ai, numOutputs, flags, hasFree) ==
    IF unknownFlags(flags) # {} THEN throws(st)
    ELSE IF illegalCache(flags) THEN throws(st)
    ELSE IF numOutputs < 1 THEN throws(st)
    ELSE LET st1 == filterInstanceCreated(st)
         IN  IF \E i \in 1..numOutputs :
                    ~isValidAudioInfo(ai[i]) \/ samplesAboveMax(ai[i].numSamples)
             THEN throws(st1)
             ELSE made(st1,
                       [state |-> "live", refcount |-> numOutputs, nodeType |-> "audio",
                        flags |-> flags, hasFree |-> hasFree, deps |-> {},
                        vi |-> [i \in 1..numOutputs |->
                                  [ai[i] EXCEPT !.numFrames = framesOfSamples(ai[i].numSamples)]],
                        destroyed |-> 0])

\* the formats the Core has registered: the pointers a filter got from it
isValidFormatPointer(f) == f = "registered"

\* VideoFormatFromV3: the format a version 3 format pointer stands for
VideoFormatFromV3(f) ==
    IF f = "null"
    THEN [colorFamily |-> "cfUndefined", sampleType |-> "stInteger", bitsPerSample |-> 0,
          subSamplingW |-> 0, subSamplingH |-> 0]
    ELSE [colorFamily |-> "cfYUV", sampleType |-> "stInteger", bitsPerSample |-> 8,
          subSamplingW |-> 1, subSamplingH |-> 1]

VideoInfoFromV3(vi) ==
    [format |-> VideoFormatFromV3(vi.format), fpsNum |-> vi.fpsNum, fpsDen |-> vi.fpsDen,
     width |-> vi.width, height |-> vi.height, numFrames |-> vi.numFrames]

\* the fatal errors of setVideoInfo3
setVideoInfo3_fatal(vi, numOutputs) ==
    \/ numOutputs < 1
    \/ \E i \in 1..numOutputs :
          \/ (vi[i].height # 0) # (vi[i].width # 0)
          \/ vi[i].format # "null" /\ ~isValidFormatPointer(vi[i].format)
          \/ reduceRational(vi[i].fpsNum, vi[i].fpsDen) # <<vi[i].fpsNum, vi[i].fpsDen>>

\* VSNode::setVideoInfo3(vi, numOutputs), when no error is fatal
setVideoInfo3(node, vi, numOutputs) ==
    [node EXCEPT !.vi = @ \o [i \in 1..numOutputs |-> VideoInfoFromV3(vi[i])],
                 !.refcount = numOutputs]

\* the init callback of a version 3 filter: the calls of setVideoInfo it makes
RECURSIVE init(_, _)
init(r, calls) ==
    IF calls = <<>> \/ r.fatal THEN r
    ELSE IF setVideoInfo3_fatal(Head(calls).vi, Head(calls).numOutputs)
         THEN [r EXCEPT !.fatal = TRUE]
         ELSE init([r EXCEPT !.node = setVideoInfo3(@, Head(calls).vi, Head(calls).numOutputs)],
                   Tail(calls))

\* VSNode(in, out, name, init, ..., flags, ...): error is whether init leaves an
\* error in out
VSNode_api3(st, calls, error, flags, hasFree) ==
    IF unknownFlags3(flags) # {} THEN throws(st)
    ELSE IF illegalCache(flags) THEN throws(st)
    ELSE LET st1 == filterInstanceCreated(st)
             r == init([fatal |-> FALSE,
                        node |-> [state |-> "live", refcount |-> 0, nodeType |-> "video",
                                  flags |-> flags, hasFree |-> hasFree, deps |-> {},
                                  vi |-> <<>>, destroyed |-> 0]], calls)
         IN  IF r.fatal THEN [ok |-> FALSE, fatal |-> TRUE, st |-> st1, node |-> NoNode]
             ELSE IF error THEN throws(filterInstanceDestroyed(st1))
             ELSE IF r.node.vi = <<>> THEN throws(filterInstanceDestroyed(st1))
             ELSE IF \E i \in 1..Len(r.node.vi) : r.node.vi[i].numFrames <= 0
                  THEN throws(filterInstanceDestroyed(st1))
             ELSE made(st1, r.node)

\* VSNode::getNumOutputs
getNumOutputs(node) == Len(node.vi)

-----------------------------------------------------------------------------
(* The handlers of the Core *)

liveRefs(rf) == {r \in RefIds : rf[r].state = "live"}

noneRefs(rf) == {r \in RefIds : rf[r].state = "none"}

noneNodes(nd) == {n \in NodeIds : nd[n].state = "none"}

\* the holders of handle r that are not instance data of a filter
userHolders(r) == refs[r].refcount - Cardinality({n \in NodeIds : r \in nodes[n].deps})

\* the deleted nodes that handles still name
dangling == {n \in NodeIds : nodes[n].state = "destroyed"
                              /\ \E r \in liveRefs(refs) : refs[r].clip = n}

\* the handles a filter that is being created may keep in its instance data
Deps(hasFree) ==
    IF hasFree
    THEN {S \in SUBSET {r \in liveRefs(refs) : refs[r].refcount < MaxHolders} :
            Cardinality(S) <= 2}
    ELSE {{}}

Ev(op, ok, fatal, node, log, req) ==
    [op |-> op, ok |-> ok, fatal |-> fatal, node |-> node, log |-> log, req |-> req,
     before |-> core.numFilterInstances, refsBefore |-> liveRefs(refs)]

CoreCommit(st, l) ==
    /\ memory' = st.memory
    /\ heap' = st.heap
    /\ core' = st.core
    /\ nodes' = st.nodes
    /\ refs' = st.refs
    /\ freeDepth' = st.freeDepth
    /\ nodeFreeList' = st.nodeFreeList
    /\ last' = l
    /\ UNCHANGED <<planes, frames, guardSpace, threads, apiVars>>

\* for (i < node->getNumOutputs()) { ref = new VSNodeRef(node, i);
\* propSetNode(out, "clip", ref, paAppend); ref->release(); }: out keeps handle i
RECURSIVE newRefs(_, _, _, _)
newRefs(rf, node, id, i) ==
    IF i >= getNumOutputs(node) THEN rf
    ELSE newRefs([rf EXCEPT ![Min(noneRefs(rf))] =
                      [state |-> "live", refcount |-> 1, clip |-> id, index |-> i]],
                 node, id, i + 1)

RECURSIVE addRefs(_, _)
addRefs(st, rs) ==
    IF rs = <<>> THEN st ELSE addRefs(VSNodeRef_add_ref(st, Head(rs)), Tail(rs))

\* createVideoFilter, createAudioFilter, createFilter3 after new VSNode: r is
\* what the constructor gave; deps are the handles the instance data keeps
Create(op, r, deps, req) ==
    /\ coreAlive
    /\ IF r.fatal
       THEN CoreCommit([r.st EXCEPT !.core.terminated = TRUE],
                       Ev(op, FALSE, TRUE, 0, <<>>, req))
       ELSE IF ~r.ok
       THEN CoreCommit(r.st, Ev(op, FALSE, FALSE, 0, <<>>, req))
       ELSE /\ noneNodes(nodes) # {}
            /\ Cardinality(noneRefs(refs)) >= getNumOutputs(r.node)
            /\ LET id == Min(noneNodes(nodes))
                   st1 == [r.st EXCEPT !.nodes[id] = [r.node EXCEPT !.deps = deps],
                                       !.refs = newRefs(@, r.node, id, 0)]
               IN  CoreCommit(addRefs(st1, inOrder(deps)), Ev(op, TRUE, FALSE, id, <<>>, req))

CreateVideoFilter(vi, numOutputs, flags, hasFree, deps) ==
    Create("createVideoFilter", VSNode_video(CoreState({}), vi, numOutputs, flags, hasFree),
           deps, [vi |-> vi, numOutputs |-> numOutputs, flags |-> flags])

CreateAudioFilter(ai, numOutputs, flags, hasFree, deps) ==
    Create("createAudioFilter", VSNode_audio(CoreState({}), ai, numOutputs, flags, hasFree),
           deps, [ai |-> ai, numOutputs |-> numOutputs, flags |-> flags])

CreateFilter3(calls, error, flags, hasFree, deps) ==
    Create("createFilter3", VSNode_api3(CoreState({}), calls, error, flags, hasFree),
           deps, [calls |-> calls, error |-> error, flags |-> flags])

\* cloneNodeRef / addNodeRef: VSNodeRef::add_ref
CloneNodeRef(r) ==
    /\ ~core.terminated
    /\ refs[r].state = "live" /\ refs[r].refcount < MaxHolders
    /\ CoreCommit(VSNodeRef_add_ref(CoreState({}), r),
                  Ev("cloneNodeRef", TRUE, FALSE, refs[r].clip, <<>>, r))

\* freeNode: VSNodeRef::release
FreeNode(r) ==
    /\ ~core.terminated
    /\ refs[r].state = "live" /\ userHolders(r) > 0
    /\ \E ub \in SUBSET dangling :
          LET st == VSNodeRef_release(CoreState(ub), r)
          IN  CoreCommit(st, Ev("freeNode", TRUE, FALSE, refs[r].clip, st.log, r))

\* VSCore::freeCore
FreeCore ==
    /\ coreAlive
    /\ IF core.coreFreed
       THEN CoreCommit([CoreState({}) EXCEPT !.core.terminated = TRUE],
                       Ev("freeCore", FALSE, TRUE, 0, <<>>, 0))
       ELSE CoreCommit(filterInstanceDestroyed([CoreState({}) EXCEPT !.core.coreFreed = TRUE]),
                       Ev("freeCore", TRUE, FALSE, 0, <<>>, 0))

-----------------------------------------------------------------------------
(* The life of the Core: nodes are created, their handles cloned and freed,    *)
(* frames are made and freed, the Core is freed                                *)

\* YUV420P8
GoodFormat == [colorFamily |-> "cfYUV", sampleType |-> "stInteger", bitsPerSample |-> 8,
               subSamplingW |-> 1, subSamplingH |-> 1]

GoodVI == [format |-> GoodFormat, fpsNum |-> 30, fpsDen |-> 1, width |-> 16, height |-> 2,
           numFrames |-> 10]

GoodVI3 == [format |-> "registered", fpsNum |-> 30, fpsDen |-> 1, width |-> 16,
            height |-> 2, numFrames |-> 10]

GoodAI == [format |-> [sampleType |-> "stInteger", bitsPerSample |-> 16, channelLayout |-> 3],
           sampleRate |-> 48000, numSamples |-> [hi |-> 1, lo |-> 0], numFrames |-> 0]

\* the video infos, audio infos, flags and init callbacks handed to the Core
CoreVideoInfos == {GoodVI, [GoodVI EXCEPT !.width = 0]}

CoreAudioInfos ==
    {GoodAI, [GoodAI EXCEPT !.numSamples = [hi |-> 0, lo |-> 0]],
     [GoodAI EXCEPT !.numSamples = [hi |-> INT_MAX, lo |-> 1]]}

CoreFlags == {{}, {"nfIsCache"}}

\* the calls of setVideoInfo an init callback makes: none, one, or two
CoreInits ==
    LET call(n) == [vi |-> <<GoodVI3, GoodVI3>>, numOutputs |-> n]
    IN  {<<>>, <<call(1)>>, <<call(2)>>, <<call(1), call(1)>>, <<call(0)>>,
         <<[vi |-> <<[GoodVI3 EXCEPT !.numFrames = 0]>>, numOutputs |-> 1]>>}

InitCore == InitObjects /\ InitApi /\ guardSpace = 0

\* the creations that are followed: the filter-instance count and the nodes made
mayCreate(maxNodes) ==
    /\ core.numFilterInstances < MaxInstances
    /\ Cardinality(NodeIds \ noneNodes(nodes)) < maxNodes

NextCore ==
    \/ \E v \in CoreVideoInfos, n \in 0..2, fl \in CoreFlags, hasFree \in BOOLEAN :
          mayCreate(CoreNodes) /\ CreateVideoFilter(<<v, GoodVI>>, n, fl, hasFree, {})
    \/ \E a \in CoreAudioInfos, n \in 0..1, fl \in CoreFlags, hasFree \in BOOLEAN :
          mayCreate(CoreNodes) /\ CreateAudioFilter(<<a>>, n, fl, hasFree, {})
    \/ \E calls \in CoreInits, error \in BOOLEAN, fl \in CoreFlags, hasFree \in BOOLEAN :
          mayCreate(CoreNodes) /\ CreateFilter3(calls, error, fl, hasFree, {})
    \/ \E r \in RefIds : CloneNodeRef(r)
    \/ \E r \in RefIds : FreeNode(r)
    \/ FreeCore
    \/ /\ \A f \in FrameIds : ~frames[f].live
       /\ NewVideoFrame(CHOOSE f \in VideoFormats : f.numPlanes = 1, 16, 2)
    \/ \E f \in FrameIds : ~core.terminated /\ FreeFrame(f)

SpecCore == InitCore /\ [][NextCore]_vars

-----------------------------------------------------------------------------
(* Teardown: filters whose instance data holds handles of other nodes, which   *)
(* their free functions release                                                *)

NextTeardown ==
    \/ \E hasFree \in BOOLEAN : \E deps \in Deps(hasFree) :
          mayCreate(MaxNodes) /\ CreateVideoFilter(<<GoodVI>>, 1, {}, hasFree, deps)
    \/ \E r \in RefIds : FreeNode(r)
    \/ FreeCore

SpecTeardown == InitCore /\ [][NextTeardown]_vars

-----------------------------------------------------------------------------
(* Creation: one node is asked for, with every kind of flags, number of        *)
(* outputs, frame rate and dimensions, and its handles are freed               *)

CreateFlags ==
    {{}, {"nfNoCache"}, {"nfIsCache"}, {"nfNoCache", "nfIsCache"}, {"nfMakeLinear"},
     {"nfFrameReady"}, {"nfUnknown"}, {"nfIsCache", "nfFrameReady"}}

\* fpsNum, fpsDen
CreateRates == {<<0, 0>>, <<0, 1>>, <<0, 5>>, <<30, 1>>, <<5, 2>>, <<2, 2>>, <<60, 2>>}

\* width, height
CreateSizes == {<<0, 0>>, <<16, 2>>, <<16, 0>>, <<0, 2>>}

CreateVideoInfos ==
    { [GoodVI EXCEPT !.fpsNum = r[1], !.fpsDen = r[2], !.width = d[1], !.height = d[2]]
      : r \in CreateRates, d \in CreateSizes }

CreateVideoInfos3 ==
    { [GoodVI3 EXCEPT !.format = f, !.fpsNum = r[1], !.fpsDen = r[2],
                      !.width = d[1], !.height = d[2]]
      : f \in {"null", "registered"}, r \in CreateRates, d \in CreateSizes }

CreateInits ==
    {<<>>, <<[vi |-> <<GoodVI3>>, numOutputs |-> 1], [vi |-> <<GoodVI3>>, numOutputs |-> 1]>>}
    \cup { <<[vi |-> <<v, GoodVI3>>, numOutputs |-> n]>> : v \in CreateVideoInfos3, n \in 0..2 }

NextCreate ==
    \/ \E v1 \in CreateVideoInfos, v2 \in CreateVideoInfos, n \in 0..2, fl \in CreateFlags :
          last.op = "init" /\ CreateVideoFilter(<<v1, v2>>, n, fl, FALSE, {})
    \/ \E a1 \in CoreAudioInfos, a2 \in CoreAudioInfos, n \in 0..2, fl \in CreateFlags :
          last.op = "init" /\ CreateAudioFilter(<<a1, a2>>, n, fl, FALSE, {})
    \/ \E calls \in CreateInits, error \in BOOLEAN, fl \in CreateFlags :
          last.op = "init" /\ CreateFilter3(calls, error, fl, FALSE, {})
    \/ \E r \in RefIds : FreeNode(r)

SpecCreate == InitCore /\ [][NextCreate]_vars

-----------------------------------------------------------------------------
(* Strings: a std::string is a sequence of characters, a character a string  *)
(* of length one.                                                            *)

\* the printable characters in the order of their codes, 32 to 126 ("grave" stands
\* for the grave accent, code 96)
Printable ==
    <<" ", "!", "\"", "#", "$", "%", "&", "'", "(", ")", "*", "+", ",", "-", ".", "/",
      "0", "1", "2", "3", "4", "5", "6", "7", "8", "9", ":", ";", "<", "=", ">", "?",
      "@", "A", "B", "C", "D", "E", "F", "G", "H", "I", "J", "K", "L", "M", "N", "O",
      "P", "Q", "R", "S", "T", "U", "V", "W", "X", "Y", "Z", "[", "\\", "]", "^", "_",
      "grave", "a", "b", "c", "d", "e", "f", "g", "h", "i", "j", "k", "l", "m", "n", "o",
      "p", "q", "r", "s", "t", "u", "v", "w", "x", "y", "z", "{", "|", "}", "~">>

\* the code of a character
Ord == [c \in {Printable[i] : i \in 1..Len(Printable)} |->
           31 + (CHOOSE i \in 1..Len(Printable) : Printable[i] = c)]

isAlpha(c) ==
    (Ord[c] >= Ord["a"] /\ Ord[c] <= Ord["z"]) \/ (Ord[c] >= Ord["A"] /\ Ord[c] <= Ord["Z"])

isAlphaNumUnderscore(c) ==
    \/ (Ord[c] >= Ord["a"] /\ Ord[c] <= Ord["z"])
    \/ (Ord[c] >= Ord["A"] /\ Ord[c] <= Ord["Z"])
    \/ (Ord[c] >= Ord["0"] /\ Ord[c] <= Ord["9"])
    \/ c = "_"

\* a bug isValidIdentifier could have: the first character is tested as the rest are
isValidIdentifier_anyFirst(s) ==
    IF Len(s) = 0 THEN FALSE
    ELSE \A i \in 1..Len(s) : isAlphaNumUnderscore(s[i])

isValidIdentifier(s) ==
    IF Len(s) = 0 THEN FALSE
    ELSE IF ~isAlpha(s[1]) THEN FALSE
    ELSE \A i \in 2..Len(s) : isAlphaNumUnderscore(s[i])

\* s.find_first_of(delimiter, current), Len(s) + 1 where there is none
find_first_of(s, delimiter, current) ==
    Min({i \in current..Len(s) : s[i] = delimiter} \cup {Len(s) + 1})

\* split(result, s, delimiters, split1::no_empties), from the character after next
RECURSIVE split(_, _, _)
split(s, delimiter, next) ==
    IF \A i \in (next + 1)..Len(s) : s[i] = delimiter THEN <<>>
    ELSE LET current == Min({i \in (next + 1)..Len(s) : s[i] # delimiter})
             found == find_first_of(s, delimiter, current)
         IN  <<SubSeq(s, current, found - 1)>> \o split(s, delimiter, found)

-----------------------------------------------------------------------------
(* VSPluginFunction: the argument strings *)

PropTypes == {"ptInt", "ptFloat", "ptData", "ptFunction", "ptVideoNode", "ptAudioNode",
              "ptVideoFrame", "ptAudioFrame"}

\* what a parse gives: the arguments, or the std::runtime_error it throws
Parsed(args) == [ok |-> TRUE, args |-> args, error |-> ""]

runtime_error(what) == [ok |-> FALSE, args |-> <<>>, error |-> what]

FilterArgument(name, type, arr, empty, opt) ==
    [name |-> name, type |-> type, arr |-> arr, empty |-> empty, opt |-> opt]

\* the chain of comparisons of typeName, ptUnset where the last else throws
typeOfName(typeName, apiMajor) ==
    IF typeName = <<"i", "n", "t">> THEN "ptInt"
    ELSE IF typeName = <<"f", "l", "o", "a", "t">> THEN "ptFloat"
    ELSE IF typeName = <<"d", "a", "t", "a">> THEN "ptData"
    ELSE IF \/ (typeName = <<"v", "n", "o", "d", "e">> /\ apiMajor > VAPOURSYNTH3_API_MAJOR)
            \/ (apiMajor = VAPOURSYNTH3_API_MAJOR /\ typeName = <<"c", "l", "i", "p">>)
         THEN "ptVideoNode"
    ELSE IF typeName = <<"a", "n", "o", "d", "e">> /\ apiMajor > VAPOURSYNTH3_API_MAJOR
         THEN "ptAudioNode"
    ELSE IF \/ (typeName = <<"v", "f", "r", "a", "m", "e">> /\ apiMajor > VAPOURSYNTH3_API_MAJOR)
            \/ (apiMajor = VAPOURSYNTH3_API_MAJOR /\ typeName = <<"f", "r", "a", "m", "e">>)
         THEN "ptVideoFrame"
    ELSE IF typeName = <<"a", "f", "r", "a", "m", "e">> /\ apiMajor > VAPOURSYNTH3_API_MAJOR
         THEN "ptAudioFrame"
    ELSE IF typeName = <<"f", "u", "n", "c">> THEN "ptFunction"
    ELSE "ptUnset"

\* the loop over argParts[2..]: the flags, or the error of the first bad modifier
RECURSIVE modifiers(_, _, _, _)
modifiers(argParts, i, opt, empty) ==
    IF i > Len(argParts) THEN [ok |-> TRUE, opt |-> opt, empty |-> empty, error |-> ""]
    ELSE IF argParts[i] = <<"o", "p", "t">>
         THEN IF opt THEN [ok |-> FALSE, opt |-> opt, empty |-> empty,
                           error |-> "duplicate argument specifier"]
              ELSE modifiers(argParts, i + 1, TRUE, empty)
    ELSE IF argParts[i] = <<"e", "m", "p", "t", "y">>
         THEN IF empty THEN [ok |-> FALSE, opt |-> opt, empty |-> empty,
                             error |-> "duplicate argument specifier"]
              ELSE modifiers(argParts, i + 1, opt, TRUE)
    ELSE [ok |-> FALSE, opt |-> opt, empty |-> empty, error |-> "unknown argument modifier"]

\* the body of parseArgString's loop for one arg, after its split
parseArgParts(argParts, apiMajor) ==
        IF Len(argParts) < 2 THEN runtime_error("incomplete")
        ELSE
        LET argName == argParts[1]
            arr == /\ Len(argParts[2]) > 2
                   /\ SubSeq(argParts[2], Len(argParts[2]) - 1, Len(argParts[2])) = <<"[", "]">>
            typeName == IF arr THEN SubSeq(argParts[2], 1, Len(argParts[2]) - 2)
                        ELSE argParts[2]
            type == typeOfName(typeName, apiMajor)
            m == modifiers(argParts, 3, FALSE, FALSE)
        IN  IF type = "ptUnset" THEN runtime_error("invalid type")
            ELSE IF ~m.ok THEN runtime_error(m.error)
            ELSE IF ~isValidIdentifier(argName) THEN runtime_error("illegal characters")
            ELSE IF m.empty /\ ~arr THEN runtime_error("not an array")
            ELSE Parsed(<<FilterArgument(argName, type, arr, m.empty, m.opt)>>)

\* split(argParts, arg, ":") and the body of the loop
parseArg(arg, apiMajor) == parseArgParts(split(arg, ":", 0), apiMajor)

RECURSIVE parseArgList(_, _, _)

\* args.push_back(...) and the next arg, or the exception that ends the loop
push_back(r, argList, argsOut, apiMajor) ==
    IF ~r.ok THEN r
    ELSE parseArgList(Tail(argList), argsOut \o r.args, apiMajor)

parseArgList(argList, argsOut, apiMajor) ==
    IF argList = <<>> THEN Parsed(argsOut)
    ELSE push_back(parseArg(Head(argList), apiMajor), argList, argsOut, apiMajor)

parseArgString(argString, apiMajor) ==
    parseArgList(split(argString, ";", 0), <<>>, apiMajor)

\* the function object, given what the two parses gave
VSPluginFunction_parsed(name, argString, returnType, a, r) ==
        IF ~a.ok THEN [ok |-> FALSE, f |-> <<>>, error |-> a.error]
        ELSE IF ~r.ok THEN [ok |-> FALSE, f |-> <<>>, error |-> r.error]
        ELSE [ok |-> TRUE, error |-> "",
              f |-> [name |-> name, argString |-> argString, returnType |-> returnType,
                     args |-> a.args, retArgs |-> r.args]]

\* VSPluginFunction::VSPluginFunction: parseArgString(argString, args, apiMajor) and
\* parseArgString(returnType, retArgs, apiMajor)
VSPluginFunction(name, argString, returnType, apiMajor) ==
    VSPluginFunction_parsed(name, argString, returnType,
                            parseArgString(argString, apiMajor),
                            parseArgString(returnType, apiMajor))

isAudio(type) == type = "ptAudioNode" \/ type = "ptAudioFrame"

\* VSPluginFunction::isV3Compatible
isV3Compatible(f) ==
    /\ \A i \in 1..Len(f.args) : ~isAudio(f.args[i].type)
    /\ \A i \in 1..Len(f.retArgs) : ~isAudio(f.retArgs[i].type)

\* a bug getV3ArgString could have: a node keeps the name of the current generation
v3TypeName_current(type) ==
    CASE type = "ptInt" -> <<"i", "n", "t">>
      [] type = "ptFloat" -> <<"f", "l", "o", "a", "t">>
      [] type = "ptData" -> <<"d", "a", "t", "a">>
      [] type = "ptVideoNode" -> <<"v", "n", "o", "d", "e">>
      [] type = "ptVideoFrame" -> <<"f", "r", "a", "m", "e">>
      [] type = "ptFunction" -> <<"f", "u", "n", "c">>

\* the switch of getV3ArgString; its default is assert(false)
v3TypeName(type) ==
    CASE type = "ptInt" -> <<"i", "n", "t">>
      [] type = "ptFloat" -> <<"f", "l", "o", "a", "t">>
      [] type = "ptData" -> <<"d", "a", "t", "a">>
      [] type = "ptVideoNode" -> <<"c", "l", "i", "p">>
      [] type = "ptVideoFrame" -> <<"f", "r", "a", "m", "e">>
      [] type = "ptFunction" -> <<"f", "u", "n", "c">>

RECURSIVE getV3ArgString(_)
getV3ArgString(args) ==
    IF args = <<>> THEN <<>>
    ELSE LET iter == Head(args)
         IN  iter.name \o <<":">> \o v3TypeName(iter.type)
             \o (IF iter.arr THEN <<"[", "]">> ELSE <<>>)
             \o (IF iter.opt THEN <<":", "o", "p", "t">> ELSE <<>>)
             \o (IF iter.empty THEN <<":", "e", "m", "p", "t", "y">> ELSE <<>>)
             \o <<";">> \o getV3ArgString(Tail(args))

-----------------------------------------------------------------------------
(* VSMap: a set of entries, one for a key; an entry has the type of its      *)
(* array, the size of the array and, for video nodes, whether a node of it   *)
(* has an output of a compat colour family.                                   *)

keys(map) == {e.key : e \in map}

find(map, key) == CHOOSE e \in map : e.key = key

\* propGetType: the type of the array under key, ptUnset where there is no such key
propGetType(map, key) ==
    IF key \in keys(map) THEN find(map, key).type ELSE "ptUnset"

\* a bug isV3Compatible could have: only audio frames are looked for
VSMap_isV3Compatible_frames(map) == \A e \in map : e.type # "ptAudioFrame"

\* VSMap::isV3Compatible
VSMap_isV3Compatible(map) == \A e \in map : ~isAudio(e.type)

\* VSMap::hasCompatNodes
hasCompatNodes(map) == \E e \in map : e.type = "ptVideoNode" /\ e.compat

-----------------------------------------------------------------------------
(* VSPlugin *)

\* a bug registerFunction could have: the name is not looked up
count_none(funcs, name) == FALSE

count(funcs, name) == \E f \in funcs : f.name = name

at(funcs, name) == CHOOSE f \in funcs : f.name = name

\* try { funcs.emplace(...) } catch (std::runtime_error &e): c is what the
\* constructor of the function gave
funcs_emplace(p, c) ==
    IF ~c.ok THEN [ok |-> FALSE, p |-> p, log |-> c.error]
    ELSE [ok |-> TRUE, p |-> [p EXCEPT !.funcs = @ \cup {c.f}], log |-> ""]

\* registerFunction: whether it returns true, the plugin it leaves and what it logs
registerFunction(p, name, args, returnType) ==
    IF p.readOnly THEN [ok |-> FALSE, p |-> p, log |-> "read only"]
    ELSE IF ~isValidIdentifier(name) THEN [ok |-> FALSE, p |-> p, log |-> "illegal identifier"]
    ELSE IF count(p.funcs, name) THEN [ok |-> FALSE, p |-> p, log |-> "more than once"]
    ELSE funcs_emplace(p, VSPluginFunction(name, args, returnType, p.apiMajor))

\* the loop of invoke over f.args and the test of remainingArgs: the message of
\* the VSException thrown, "" where none is
RECURSIVE checkArguments(_, _, _)
checkArguments(fargs, args, remainingArgs) ==
    IF fargs = <<>>
    THEN IF remainingArgs # {} THEN "no argument(s) named" ELSE ""
    ELSE LET fa == Head(fargs)
             propType == propGetType(args, fa.name)
         IN  IF propType # "ptUnset"
             THEN IF fa.type # propType THEN "is not of the correct type"
                  ELSE IF ~fa.arr /\ find(args, fa.name).size > 1
                       THEN "is not of array type but more than one value was supplied"
                  ELSE IF ~fa.empty /\ find(args, fa.name).size < 1
                       THEN "does not accept empty arrays"
                  ELSE checkArguments(Tail(fargs), args, remainingArgs \ {fa.name})
             ELSE IF ~fa.opt THEN "is required"
             ELSE checkArguments(Tail(fargs), args, remainingArgs)

\* a bug invoke could have: compat input reaches a plugin that is not compatible
invoke_compatInput(p, funcName, args, out) ==
    IF ~count(p.funcs, funcName)
    THEN [called |-> FALSE, error |-> "not found", fatal |-> FALSE]
    ELSE LET e == checkArguments(at(p.funcs, funcName).args, args, keys(args))
         IN  IF e # "" THEN [called |-> FALSE, error |-> e, fatal |-> FALSE]
             ELSE [called |-> TRUE, error |-> out.error, fatal |-> FALSE]

\* invoke: whether f.func was called, the error of the map returned and whether a
\* fatal message was logged; out is what f.func leaves in the map it is given
invoke(p, funcName, args, out) ==
    IF ~count(p.funcs, funcName)
    THEN [called |-> FALSE, error |-> "not found", fatal |-> FALSE]
    ELSE LET f == at(p.funcs, funcName)
             e == IF ~p.compat /\ hasCompatNodes(args)
                  THEN "only special filters may accept compat input"
                  ELSE checkArguments(f.args, args, keys(args))
         IN  IF e # "" THEN [called |-> FALSE, error |-> e, fatal |-> FALSE]
             ELSE [called |-> TRUE, error |-> out.error,
                   fatal |-> \/ (~p.compat /\ out.compat)
                             \/ (p.apiMajor = VAPOURSYNTH3_API_MAJOR
                                 /\ ~VSMap_isV3Compatible(args))]

\* VSFuncRef::call
call(apiMajor, in, out) ==
    IF apiMajor = VAPOURSYNTH3_API_MAJOR /\ ~VSMap_isV3Compatible(in)
    THEN [called |-> FALSE, error |-> "unknown to its API version"]
    ELSE [called |-> TRUE, error |-> out.error]

-----------------------------------------------------------------------------
(* The plugin interface: functions are registered, the plugin becomes read   *)
(* only, functions are invoked and function references are called            *)

\* the functions a plugin is followed with
MaxFuncs == 1

PluginCommit(p, fatal, l) ==
    /\ plugin' = p
    /\ core' = [core EXCEPT !.terminated = @ \/ fatal]
    /\ last' = l
    /\ UNCHANGED <<memory, heap, planes, frames, guardSpace, threads, nodes, refs,
                   freeDepth, nodeFreeList, registry, logger, sched>>

RegisterFunction(name, args, returnType) ==
    /\ ~core.terminated
    /\ \E r \in {registerFunction(plugin, name, args, returnType)} :
           /\ Cardinality(r.p.funcs) <= MaxFuncs
           /\ PluginCommit(r.p, FALSE,
                           [op |-> "registerFunction", ok |-> r.ok, name |-> name,
                            args |-> args, returnType |-> returnType, log |-> r.log,
                            funcs |-> plugin.funcs, readOnly |-> plugin.readOnly])

\* the end of the plugin's loading: if (readOnlySet) readOnly = true
Lock ==
    /\ ~core.terminated
    /\ ~plugin.readOnly
    /\ PluginCommit([plugin EXCEPT !.readOnly = TRUE], FALSE, [op |-> "lock"])

Invoke(funcName, args, out) ==
    /\ ~core.terminated
    /\ \E r \in {invoke(plugin, funcName, args, out)} :
           PluginCommit(plugin, r.fatal,
                        [op |-> "invoke", funcName |-> funcName, map |-> args,
                         called |-> r.called, error |-> r.error, fatal |-> r.fatal,
                         apiMajor |-> plugin.apiMajor])

Call(apiMajor, in, out) ==
    /\ ~core.terminated
    /\ \E r \in {call(apiMajor, in, out)} :
           PluginCommit(plugin, FALSE,
                        [op |-> "call", funcName |-> <<>>, map |-> in,
                         called |-> r.called, error |-> r.error, fatal |-> FALSE,
                         apiMajor |-> apiMajor])

\* the argument string handed to a caller of the legacy generation
GetV3ArgString(name) ==
    /\ ~core.terminated
    /\ count(plugin.funcs, name)
    /\ \A i \in 1..Len(at(plugin.funcs, name).args) : ~isAudio(at(plugin.funcs, name).args[i].type)
    /\ PluginCommit(plugin, FALSE,
                    [op |-> "getV3ArgString", name |-> name,
                     argString |-> at(plugin.funcs, name).argString,
                     s |-> getV3ArgString(at(plugin.funcs, name).args)])

\* the names functions are registered and invoked under
FuncNames == {<<"f">>, <<"G", "_", "2">>, <<"2", "g">>, <<"_", "f">>, <<"f", "-">>}

\* "a:int;", "a:int:opt;", "a:int[];", "a:int[]:empty;", "a:vnode;b:int:opt;",
\* "a:clip;b:int:opt;", "a:anode;", "", "a:int:opt:opt;", "a:int:empty;", "a:bogus;", "a;"
PluginArgStrings ==
    {<<"a", ":", "i", "n", "t", ";">>,
     <<"a", ":", "i", "n", "t", ":", "o", "p", "t", ";">>,
     <<"a", ":", "i", "n", "t", "[", "]", ";">>,
     <<"a", ":", "i", "n", "t", "[", "]", ":", "e", "m", "p", "t", "y", ";">>,
     <<"a", ":", "v", "n", "o", "d", "e", ";", "b", ":", "i", "n", "t", ":", "o", "p", "t", ";">>,
     <<"a", ":", "c", "l", "i", "p", ";", "b", ":", "i", "n", "t", ":", "o", "p", "t", ";">>,
     <<"a", ":", "a", "n", "o", "d", "e", ";">>,
     <<>>,
     <<"a", ":", "i", "n", "t", ":", "o", "p", "t", ":", "o", "p", "t", ";">>,
     <<"a", ":", "i", "n", "t", ":", "e", "m", "p", "t", "y", ";">>,
     <<"a", ":", "b", "o", "g", "u", "s", ";">>,
     <<"a", ";">>}

\* "" and "r:int:bad;"
PluginReturnTypes ==
    {<<>>, <<"r", ":", "i", "n", "t", ":", "b", "a", "d", ";">>}

Entry(key, type, size, compat) == [key |-> key, type |-> type, size |-> size, compat |-> compat]

\* the arrays a map holds under the key "a" and under the key "b"
EntriesA ==
    {Entry(<<"a">>, "ptInt", n, FALSE) : n \in 0..2}
    \cup {Entry(<<"a">>, "ptAudioNode", 1, FALSE),
          Entry(<<"a">>, "ptVideoNode", 1, FALSE), Entry(<<"a">>, "ptVideoNode", 1, TRUE),
          Entry(<<"a">>, "ptVideoNode", 2, FALSE)}

EntriesB ==
    {Entry(<<"b">>, "ptInt", 1, FALSE), Entry(<<"b">>, "ptAudioFrame", 1, FALSE)}

Maps == {A \cup B : A \in {{}} \cup {{e} : e \in EntriesA},
                    B \in {{}} \cup {{e} : e \in EntriesB}}

\* what the function leaves in the map it returns
Outs == {[error |-> "", compat |-> FALSE], [error |-> "filter error", compat |-> TRUE]}

\* the maps function references are called with
CallMaps == {m \in Maps : \A e \in m : e.size = 1 /\ ~e.compat}

InitPlugin ==
    /\ InitObjects /\ guardSpace = 0
    /\ plugin \in {NewPlugin(a, c) : a \in {VAPOURSYNTH3_API_MAJOR, VAPOURSYNTH_API_MAJOR},
                                    c \in BOOLEAN}
    /\ registry = NewRegistry /\ logger = NewLogger /\ sched = NewSched("fmParallel", {})

NextPlugin ==
    \/ \E name \in FuncNames, args \in PluginArgStrings, returnType \in PluginReturnTypes :
          RegisterFunction(name, args, returnType)
    \/ Lock
    \/ \E funcName \in {<<"f">>, <<"G", "_", "2">>}, args \in Maps, out \in Outs :
          Invoke(funcName, args, out)
    \/ \E a \in {VAPOURSYNTH3_API_MAJOR, VAPOURSYNTH_API_MAJOR}, in \in CallMaps :
          Call(a, in, [error |-> "", compat |-> FALSE])
    \/ \E name \in FuncNames : GetV3ArgString(name)

SpecPlugin == InitPlugin /\ [][NextPlugin]_vars

-----------------------------------------------------------------------------
(* Argument strings of the current generation: a function is registered      *)
(* with the string, then the string for the legacy generation is asked for   *)

ArgTypeNames ==
    {<<"i", "n", "t">>, <<"f", "l", "o", "a", "t">>, <<"d", "a", "t", "a">>,
     <<"f", "u", "n", "c">>, <<"v", "n", "o", "d", "e">>, <<"a", "n", "o", "d", "e">>,
     <<"v", "f", "r", "a", "m", "e">>, <<"a", "f", "r", "a", "m", "e">>,
     <<"c", "l", "i", "p">>, <<"f", "r", "a", "m", "e">>, <<"b", "o", "g", "u", "s">>}

\* "", ":opt", ":empty", ":opt:empty", ":empty:opt", ":opt:opt", ":bad"
ArgModifiers ==
    {<<>>, <<":", "o", "p", "t">>, <<":", "e", "m", "p", "t", "y">>,
     <<":", "o", "p", "t", ":", "e", "m", "p", "t", "y">>,
     <<":", "e", "m", "p", "t", "y", ":", "o", "p", "t">>,
     <<":", "o", "p", "t", ":", "o", "p", "t">>, <<":", "b", "a", "d">>}

\* name:typeName, name:typeName[], with the modifiers
ArgSpecs(names, typeNames, mods) ==
    {n \o <<":">> \o t \o a \o m :
        n \in names, t \in typeNames, a \in {<<>>, <<"[", "]">>}, m \in mods}

\* strings of one argument, of two arguments, and strings the grammar's
\* separators are unusual in: "a:int", ";;a:int;", "a::int;", "a:int:;",
\* "a:[];", "a:int[][];", " a:int;", "a:int;;b:float[]:opt"
ArgStrings ==
    {s \o <<";">> : s \in ArgSpecs({<<"a">>}, ArgTypeNames, ArgModifiers)}
    \cup {s \o <<";">> : s \in ArgSpecs({<<"b", "_", "1">>, <<"1", "a">>, <<"Z", "9">>},
                                    {<<"i", "n", "t">>}, {<<>>, <<":", "o", "p", "t">>})}
    \cup {s \o <<";">> \o t \o <<";">> :
            s \in ArgSpecs({<<"a">>},
                           {<<"i", "n", "t">>, <<"v", "n", "o", "d", "e">>,
                            <<"v", "f", "r", "a", "m", "e">>, <<"f", "u", "n", "c">>},
                           {<<>>, <<":", "o", "p", "t">>,
                            <<":", "e", "m", "p", "t", "y", ":", "o", "p", "t">>}),
            t \in ArgSpecs({<<"b", "_", "1">>},
                           {<<"d", "a", "t", "a">>, <<"f", "l", "o", "a", "t">>,
                            <<"v", "n", "o", "d", "e">>},
                           {<<>>, <<":", "o", "p", "t", ":", "e", "m", "p", "t", "y">>})}
    \cup {<<>>,
          <<"a", ":", "i", "n", "t">>,
          <<";", ";", "a", ":", "i", "n", "t", ";">>,
          <<"a", ":", ":", "i", "n", "t", ";">>,
          <<"a", ":", "i", "n", "t", ":", ";">>,
          <<"a", ":", "[", "]", ";">>,
          <<"a", ":", "i", "n", "t", "[", "]", "[", "]", ";">>,
          <<" ", "a", ":", "i", "n", "t", ";">>,
          <<"a", ":", "i", "n", "t", ";", ";", "b", ":", "f", "l", "o", "a", "t", "[", "]",
            ":", "o", "p", "t">>}

InitArgs ==
    /\ InitObjects /\ guardSpace = 0
    /\ plugin = NewPlugin(VAPOURSYNTH_API_MAJOR, FALSE)
    /\ registry = NewRegistry /\ logger = NewLogger /\ sched = NewSched("fmParallel", {})

NextArgs ==
    \/ \E args \in ArgStrings : plugin.funcs = {} /\ RegisterFunction(<<"f">>, args, <<>>)
    \/ GetV3ArgString(<<"f">>)

SpecArgs == InitArgs /\ [][NextArgs]_vars

-----------------------------------------------------------------------------
(* The plugin registry: threads load plugins. new VSPlugin runs before the   *)
(* lock is taken; the two lookups and the insertion run under pluginLock.     *)

\* the identifiers and namespaces the loaded plugins configure themselves with
PluginIds == {"com.vapoursynth.std", "com.example.a", "com.example.b"}

Namespaces == {"std", "a", "b"}

\* a bug loadPlugin could have: the lock is not waited for
canLock_always(mutex, t) == TRUE

\* std::lock_guard on a mutex: the thread goes on when nobody else holds it
canLock(mutex, t) == mutex = -1 \/ mutex = t

\* getPluginByID: the plugins found under the identifier
getPluginByID(plugins, identifier) == {p \in plugins : p.id = identifier}

\* getPluginByNamespace
getPluginByNamespace(plugins, ns) == {p \in plugins : p.ns = ns}

\* plugins.insert(std::make_pair(p->getID(), p)): a map keeps the entry it has
insert(plugins, p) ==
    IF \E q \in plugins : q.id = p.id THEN plugins ELSE plugins \cup {p}

RegistryCommit(r, l) ==
    /\ registry' = r
    /\ last' = l
    /\ UNCHANGED <<objVars, plugin, logger, sched>>

\* VSPlugin *p = new VSPlugin(filename, forcedNamespace, forcedId, ...)
LoadPlugin_new(t, id, ns) ==
    /\ registry.loading[t].pc = "idle"
    /\ RegistryCommit([registry EXCEPT !.loading[t] = [pc |-> "new", id |-> id, ns |-> ns]],
                      [op |-> "new VSPlugin", t |-> t])

\* std::lock_guard<std::recursive_mutex> lock(pluginLock)
LoadPlugin_lock(t) ==
    /\ registry.loading[t].pc = "new"
    /\ canLock(registry.pluginLock, t)
    /\ RegistryCommit([registry EXCEPT !.loading[t].pc = "locked", !.pluginLock = t],
                      [op |-> "lock", t |-> t])

\* delete p; throw VSException(error): the guard gives the lock back
rejected(r, t, error) ==
    RegistryCommit([r EXCEPT !.loading[t] = NoLoad, !.pluginLock = -1],
                   [op |-> "loadPlugin", t |-> t, ok |-> FALSE, error |-> error,
                    id |-> r.loading[t].id, ns |-> r.loading[t].ns])

\* already_loaded_plugin = getPluginByID(p->getID())
LoadPlugin_byID(t) ==
    /\ registry.loading[t].pc = "locked"
    /\ IF getPluginByID(registry.plugins, registry.loading[t].id) # {}
       THEN rejected(registry, t, "already loaded")
       ELSE RegistryCommit([registry EXCEPT !.loading[t].pc = "byNamespace"],
                           [op |-> "getPluginByID", t |-> t])

\* already_loaded_plugin = getPluginByNamespace(p->getNamespace())
LoadPlugin_byNamespace(t) ==
    /\ registry.loading[t].pc = "byNamespace"
    /\ IF getPluginByNamespace(registry.plugins, registry.loading[t].ns) # {}
       THEN rejected(registry, t, "namespace already populated")
       ELSE RegistryCommit([registry EXCEPT !.loading[t].pc = "insert"],
                           [op |-> "getPluginByNamespace", t |-> t])

\* plugins.insert(...), and the end of loadPlugin
LoadPlugin_insert(t) ==
    /\ registry.loading[t].pc = "insert"
    /\ RegistryCommit([registry EXCEPT
                          !.plugins = insert(@, [id |-> registry.loading[t].id,
                                                 ns |-> registry.loading[t].ns]),
                          !.loading[t] = NoLoad, !.pluginLock = -1],
                      [op |-> "loadPlugin", t |-> t, ok |-> TRUE, error |-> "",
                       id |-> registry.loading[t].id, ns |-> registry.loading[t].ns])

InitRegistry ==
    /\ InitObjects /\ guardSpace = 0
    /\ InitApi

NextRegistry ==
    \/ \E t \in Workers, id \in PluginIds, ns \in Namespaces : LoadPlugin_new(t, id, ns)
    \/ \E t \in Workers : LoadPlugin_lock(t)
    \/ \E t \in Workers : LoadPlugin_byID(t)
    \/ \E t \in Workers : LoadPlugin_byNamespace(t)
    \/ \E t \in Workers : LoadPlugin_insert(t)

SpecRegistry == InitRegistry /\ [][NextRegistry]_vars

-----------------------------------------------------------------------------
(* The message handlers: threads add and remove handlers and log messages.   *)
(* Entering a function and taking logMutex are steps; what a function does   *)
(* with the mutex held is one step, but for the loop of logMessage, where    *)
(* each handler called is a step. A handler is the address of its            *)
(* VSMessageHandlerRecord.                                                   *)

\* the records that handlers are followed with
MaxHandlers == 2

HandlerIds == 1..MaxHandlers

MessageTypes == {"mtDebug", "mtCritical", "mtFatal"}

\* a bug the log functions could have: the mutex is not waited for
canLockLog_always(mutex) == TRUE

\* std::lock_guard<std::mutex> lock(logMutex)
canLockLog(mutex) == mutex = -1

\* the handlers the loop of logMessage has still to call: a std::set is walked
\* in the order of its elements
remaining(handlers, notified) ==
    {h \in handlers : \A i \in 1..Len(notified) : h > notified[i]}

LogCommit(lg, fatal, l) ==
    /\ logger' = lg
    /\ core' = [core EXCEPT !.terminated = @ \/ fatal]
    /\ last' = l
    /\ UNCHANGED <<memory, heap, planes, frames, guardSpace, threads, nodes, refs,
                   freeDepth, nodeFreeList, plugin, registry, sched>>

\* a thread enters one of the three functions: it is at the lock_guard
LogEnter(t, fn, type, rec) ==
    /\ ~core.terminated
    /\ logger.calls[t].pc = "idle"
    /\ LogCommit([logger EXCEPT !.calls[t] = [NoCall EXCEPT !.pc = "lock", !.fn = fn,
                                                           !.type = type, !.rec = rec]],
                 FALSE, [op |-> "enter", t |-> t])

\* the threads that are about to add a handler
adding == {t \in ThreadIds : logger.calls[t].fn = "addMessageHandler"}

AddMessageHandler(t) ==
    /\ Cardinality(logger.messageHandlers) + Cardinality(adding) < MaxHandlers
    /\ LogEnter(t, "addMessageHandler", "", 0)

RemoveMessageHandler(t, rec) == LogEnter(t, "removeMessageHandler", "", rec)

LogMessage(t, type) == LogEnter(t, "logMessage", type, 0)

\* the thread takes the mutex
LogLock(t) ==
    /\ ~core.terminated
    /\ logger.calls[t].pc = "lock"
    /\ canLockLog(logger.logMutex)
    /\ LogCommit([logger EXCEPT !.logMutex = t, !.calls[t].pc = "locked",
                                !.calls[t].registered = logger.messageHandlers],
                 FALSE, [op |-> "lock", t |-> t])

\* messageHandlers.insert(new VSMessageHandlerRecord{...})
AddMessageHandler_insert(t) ==
    /\ ~core.terminated
    /\ logger.calls[t].pc = "locked" /\ logger.calls[t].fn = "addMessageHandler"
    /\ LET rec == Min(HandlerIds \ logger.messageHandlers)
       IN  LogCommit([logger EXCEPT !.messageHandlers = @ \cup {rec}, !.logMutex = -1,
                                    !.calls[t] = NoCall],
                     FALSE, [op |-> "addMessageHandler", t |-> t, rec |-> rec])

\* find, delete rec and erase, or return false
RemoveMessageHandler_erase(t) ==
    /\ ~core.terminated
    /\ logger.calls[t].pc = "locked" /\ logger.calls[t].fn = "removeMessageHandler"
    /\ LogCommit([logger EXCEPT !.messageHandlers = @ \ {logger.calls[t].rec},
                                !.logMutex = -1, !.calls[t] = NoCall],
                 FALSE, [op |-> "removeMessageHandler", t |-> t, rec |-> logger.calls[t].rec,
                         ok |-> logger.calls[t].rec \in logger.messageHandlers])

\* iter->handler(type, msg, iter->userData) for the next element of the set
LogMessage_handler(t) ==
    /\ ~core.terminated
    /\ logger.calls[t].pc = "locked" /\ logger.calls[t].fn = "logMessage"
    /\ remaining(logger.messageHandlers, logger.calls[t].notified) # {}
    /\ LET h == Min(remaining(logger.messageHandlers, logger.calls[t].notified))
       IN  LogCommit([logger EXCEPT !.calls[t].notified = Append(@, h)],
                     FALSE, [op |-> "handler", t |-> t, rec |-> h])

\* after the loop: vsLog3, and std::terminate() for mtFatal
LogMessage_done(t) ==
    /\ ~core.terminated
    /\ logger.calls[t].pc = "locked" /\ logger.calls[t].fn = "logMessage"
    /\ remaining(logger.messageHandlers, logger.calls[t].notified) = {}
    /\ LET fatal == logger.calls[t].type = "mtFatal"
           l == [op |-> "logMessage", t |-> t, type |-> logger.calls[t].type,
                 registered |-> logger.calls[t].registered,
                 notified |-> logger.calls[t].notified]
       IN  IF fatal THEN LogCommit(logger, TRUE, l)
           ELSE LogCommit([logger EXCEPT !.logMutex = -1, !.calls[t] = NoCall], FALSE, l)

InitLog ==
    /\ InitObjects /\ guardSpace = 0
    /\ InitApi

NextLog ==
    \/ \E t \in Workers : AddMessageHandler(t)
    \/ \E t \in Workers, rec \in HandlerIds : RemoveMessageHandler(t, rec)
    \/ \E t \in Workers, type \in MessageTypes : LogMessage(t, type)
    \/ \E t \in Workers : LogLock(t)
    \/ \E t \in Workers : AddMessageHandler_insert(t)
    \/ \E t \in Workers : RemoveMessageHandler_erase(t)
    \/ \E t \in Workers : LogMessage_handler(t)
    \/ \E t \in Workers : LogMessage_done(t)

SpecLog == InitLog /\ [][NextLog]_vars

-----------------------------------------------------------------------------
(* The scheduler and one node: frames of the node are requested, workers     *)
(* pick ready tasks and run the node's frame callback. A callback returns    *)
(* the frame, or requests upstream frames and is called again when they are  *)
(* there. A task is "none" before the request, then "ready" (arInitial),     *)
(* "running", "waiting" for upstream frames, "resumable"                     *)
(* (arAllFramesReady), "running" again and "done".                           *)

FilterModes == {"fmParallel", "fmParallelRequests", "fmUnordered", "fmFrameState"}

\* frames of the node must be evaluated in ascending order
linear(s) == s.filterMode = "fmFrameState" \/ "nfMakeLinear" \in s.flags

\* the node's serialMutex is held while its callback runs
serialized(s) == s.filterMode = "fmUnordered" \/ linear(s)

\* a bug the scheduler could have: the callback is entered without the mutex
try_lock_always(mutex) == TRUE

\* serialMutex.try_lock()
try_lock(mutex) == mutex = -1

\* the frames whose evaluation has begun and is not through
inProgress(s) == {n \in FrameNumbers : s.tasks[n] \in {"running", "waiting", "resumable"}}

\* a bug the scheduler could have: any ready task of a linear node may run
allowed_any(s, n) == TRUE

\* the linear-ordering latch: a frame that is being evaluated is the only one
\* that may run; otherwise serialFrame is the least frame number that may
allowed(s, n) ==
    IF inProgress(s) # {} THEN n \in inProgress(s) ELSE n >= s.serialFrame

\* whether a worker may enter the callback for frame n
mayRun(s, n) ==
    /\ s.tasks[n] \in {"ready", "resumable"}
    /\ serialized(s) => try_lock(s.serialMutex)
    /\ linear(s) => allowed(s, n)

SchedCommit(s, l) ==
    /\ sched' = s
    /\ last' = l
    /\ UNCHANGED <<objVars, plugin, registry, logger>>

\* VSNode::getFrame: core->threadPool->start(ct)
Request(n) ==
    /\ sched.tasks[n] = "none"
    /\ SchedCommit([sched EXCEPT !.tasks[n] = "ready", !.submitted = Append(@, n)],
                   [op |-> "getFrame", n |-> n])

\* a worker takes a task and enters the callback
Start(w, n) ==
    /\ sched.running[w] = -1
    /\ mayRun(sched, n)
    /\ SchedCommit([sched EXCEPT !.tasks[n] = "running", !.running[w] = n,
                                 !.reason[w] = IF sched.tasks[n] = "ready" THEN "arInitial"
                                               ELSE "arAllFramesReady",
                                 !.serialMutex = IF serialized(sched) THEN w ELSE @,
                                 !.serialFrame = IF linear(sched) THEN n ELSE @],
                   [op |-> "start", n |-> n, w |-> w,
                    reason |-> IF sched.tasks[n] = "ready" THEN "arInitial"
                               ELSE "arAllFramesReady"])

unlock(s, w) == IF s.serialMutex = w THEN -1 ELSE s.serialMutex

\* the callback returns nullptr after it requested upstream frames; it is
\* followed for one round of upstream requests
ReturnRequests(w) ==
    /\ sched.running[w] # -1
    /\ sched.reason[w] = "arInitial"
    /\ SchedCommit([sched EXCEPT !.tasks[sched.running[w]] = "waiting", !.running[w] = -1,
                                 !.reason[w] = "", !.serialMutex = unlock(sched, w)],
                   [op |-> "return", n |-> sched.running[w], w |-> w, frame |-> FALSE])

\* the callback returns the frame: the request is complete
ReturnFrame(w) ==
    /\ sched.running[w] # -1
    /\ SchedCommit([sched EXCEPT !.tasks[sched.running[w]] = "done", !.running[w] = -1,
                                 !.reason[w] = "", !.serialMutex = unlock(sched, w),
                                 !.serialFrame = IF linear(sched) THEN sched.running[w] + 1
                                                 ELSE @,
                                 !.completed = Append(@, sched.running[w])],
                   [op |-> "return", n |-> sched.running[w], w |-> w, frame |-> TRUE])

\* the upstream frames the callback asked for are there
UpstreamReady(n) ==
    /\ sched.tasks[n] = "waiting"
    /\ SchedCommit([sched EXCEPT !.tasks[n] = "resumable"], [op |-> "ready", n |-> n])

InitSched ==
    /\ InitObjects /\ guardSpace = 0
    /\ plugin = NewPlugin(VAPOURSYNTH_API_MAJOR, FALSE)
    /\ registry = NewRegistry /\ logger = NewLogger
    /\ sched \in {NewSched(m, f) : m \in FilterModes, f \in {{}, {"nfMakeLinear"}}}

NextSched ==
    \/ \E n \in FrameNumbers : Request(n)
    \/ \E w \in Workers, n \in FrameNumbers : Start(w, n)
    \/ \E w \in Workers : ReturnRequests(w)
    \/ \E w \in Workers : ReturnFrame(w)
    \/ \E n \in FrameNumbers : UpstreamReady(n)

SpecSched == InitSched /\ [][NextSched]_vars

-----------------------------------------------------------------------------
(* Audio nodes: a filter declares a number of samples, the Core derives the  *)
(* number of frames and checks the length of every frame the filter returns  *)

\* the sample counts filters declare, as hi * VS_AUDIO_FRAME_SAMPLES + lo
AudioLengths ==
    { [hi |-> h, lo |-> l] : h \in {0, 1, 2, INT_MAX - 1, INT_MAX},
                             l \in {0, 1, 2, VS_AUDIO_FRAME_SAMPLES - 1} }

AudioInfos == { [GoodAI EXCEPT !.numSamples = s] : s \in AudioLengths }

\* int expectedSamples = (n < lai.numFrames - 1) ? VS_AUDIO_FRAME_SAMPLES
\*     : ((lai.numSamples % VS_AUDIO_FRAME_SAMPLES) ? (lai.numSamples % VS_AUDIO_FRAME_SAMPLES)
\*                                                  : VS_AUDIO_FRAME_SAMPLES)
expectedSamples(n, lai) ==
    IF n < lai.numFrames - 1 THEN VS_AUDIO_FRAME_SAMPLES
    ELSE IF lai.numSamples.lo # 0 THEN lai.numSamples.lo
    ELSE VS_AUDIO_FRAME_SAMPLES

\* the frame numbers that are asked of a node: the first three and the last
\* two a node can have
RequestedFrames == {0, 1, 2, INT_MAX - 2, INT_MAX - 1}

\* what the filter's callback returns: nullptr, or an audio frame
nullptr == [null |-> TRUE, format |-> GoodAI.format, length |-> 0]

ReturnedFrames ==
    {nullptr} \cup
    { [null |-> FALSE, format |-> f, length |-> l] :
        f \in {GoodAI.format, [GoodAI.format EXCEPT !.bitsPerSample = 32]},
        l \in {1, 2, VS_AUDIO_FRAME_SAMPLES - 1, VS_AUDIO_FRAME_SAMPLES} }

\* VSNode::getFrameInternal for an audio node whose callback returns r
GetFrameInternal(id, index, n, r) ==
    /\ ~core.terminated
    /\ nodes[id].state = "live" /\ nodes[id].nodeType = "audio"
    /\ index \in 1..Len(nodes[id].vi)
    /\ n < nodes[id].vi[index].numFrames
    /\ LET lai == nodes[id].vi[index]
           expected == expectedSamples(n, lai)
           fatal == /\ ~r.null
                    /\ \/ lai.format # r.format
                       \/ expected # r.length
       IN  CoreCommit([CoreState({}) EXCEPT !.core.terminated = fatal],
                      [op |-> "getFrameInternal", node |-> id, index |-> index, n |-> n,
                       returned |-> r, expected |-> expected, fatal |-> fatal])

NextAudio ==
    \/ \E a \in AudioInfos :
          last.op = "init" /\ CreateAudioFilter(<<a>>, 1, {}, FALSE, {})
    \/ \E id \in NodeIds, n \in RequestedFrames, r \in ReturnedFrames :
          GetFrameInternal(id, 1, n, r)

SpecAudio == InitCore /\ [][NextAudio]_vars
-----------------------------------------------------------------------------
(* Video format IDs: the five fields of a format are packed into a 32-bit    *)
(* ID and unpacked again. The enumerators are numbers here: cfUndefined and  *)
(* stInteger are 0, the other colour families and stFloat are not.           *)

VSColorFamily(name) ==
    CASE name = "cfUndefined" -> 0
      [] name = "cfGray" -> 1
      [] name = "cfRGB" -> 2
      [] name = "cfYUV" -> 3
      [] name = "cfCompatBGR32" -> 4
      [] name = "cfCompatYUY2" -> 5

VSSampleType(name) ==
    CASE name = "stInteger" -> 0
      [] name = "stFloat" -> 1

\* static_cast<VSColorFamily>(code): the enumerator of that value, "" where none is
colorFamilyOf(code) ==
    IF \E n \in ColorFamilies : VSColorFamily(n) = code
    THEN CHOOSE n \in ColorFamilies : VSColorFamily(n) = code
    ELSE ""

\* static_cast<VSSampleType>(code)
sampleTypeOf(code) ==
    IF \E n \in SampleTypes : VSSampleType(n) = code
    THEN CHOOSE n \in SampleTypes : VSSampleType(n) = code
    ELSE ""

\* isValidVideoFormat on the values of the enumerators
isValidVideoFormatCode(colorFamily, sampleType, bitsPerSample, subSamplingW, subSamplingH) ==
    isValidVideoFormat(colorFamilyOf(colorFamily), sampleTypeOf(sampleType), bitsPerSample,
                       subSamplingW, subSamplingH)

\* x & mask for mask = 2^k - 1, of a two's complement int
BitAnd(x, mask) == x % (mask + 1)

\* queryVideoFormatID
queryVideoFormatID(colorFamily, sampleType, bitsPerSample, subSamplingW, subSamplingH) ==
    IF ~isValidVideoFormatCode(colorFamily, sampleType, bitsPerSample, subSamplingW,
                               subSamplingH)
    THEN 0
    ELSE BitAnd(colorFamily, 15) * Pow2(28) + BitAnd(sampleType, 15) * Pow2(24)
         + BitAnd(bitsPerSample, 255) * Pow2(16) + BitAnd(subSamplingW, 255) * Pow2(8)
         + BitAnd(subSamplingH, 255)

\* f = {}: colorFamily, sampleType, bitsPerSample, subSamplingW and subSamplingH of
\* a format, in this order
NoFormat == <<0, 0, 0, 0, 0>>

\* queryVideoFormat: what it returns and the fields of f it leaves
queryVideoFormat(colorFamily, sampleType, bitsPerSample, subSamplingW, subSamplingH) ==
    IF colorFamily = VSColorFamily("cfUndefined") THEN [ok |-> TRUE, f |-> NoFormat]
    ELSE IF ~isValidVideoFormatCode(colorFamily, sampleType, bitsPerSample, subSamplingW,
                                    subSamplingH)
         THEN [ok |-> FALSE, f |-> NoFormat]
    ELSE [ok |-> TRUE,
          f |-> <<colorFamily, sampleType, bitsPerSample, subSamplingW, subSamplingH>>]

\* (id & 0xFF000000) == 0 && (id & 0x00FFFFFF): the ID is taken for a legacy ID
isV3Id(id) == id \div Pow2(24) = 0 /\ id % Pow2(24) # 0

\* the else branch of queryVideoFormatByID
notV3(r) == [legacy |-> FALSE, ok |-> r.ok, f |-> r.f]

\* queryVideoFormatByID; the IDs of the model are none of the legacy presets, for
\* which getV3VideoFormat finds no format and VideoFormatFromV3 gives the
\* undefined one
queryVideoFormatByID(id) ==
    IF isV3Id(id)
    THEN [legacy |-> TRUE, ok |-> TRUE, f |-> NoFormat]
    ELSE notV3(queryVideoFormat((id \div Pow2(28)) % 16, (id \div Pow2(24)) % 16,
                                (id \div Pow2(16)) % 256, (id \div Pow2(8)) % 256,
                                id % 256))

FormatCommit(l) ==
    /\ last' = l
    /\ UNCHANGED <<objVars, apiVars>>

\* the fields formats are asked with
FormatFamilies == 0..6

FormatSampleTypes == 0..2

FormatBits == {0, 8, 16, 32, 33}

FormatSubSamplings == {-1, 0, 1, 4, 5}

\* a caller is about to ask for the ID of the format with the fields args
InitFormat ==
    /\ memory = NewMemoryUse
    /\ heap = [b \in BlockIds |-> [state |-> "os", size |-> 0]]
    /\ planes = [p \in PlaneIds |-> NoPlane]
    /\ frames = [f \in FrameIds |-> NoFrame]
    /\ threads = [t \in ThreadIds |-> IdleThread]
    /\ core = NewCore
    /\ nodes = [n \in NodeIds |-> NoNode]
    /\ refs = [r \in RefIds |-> NoRef]
    /\ freeDepth = 0
    /\ nodeFreeList = <<>>
    /\ guardSpace = 0
    /\ InitApi
    /\ last \in {[op |-> "init", args |-> <<cf, st, bits, ssw, ssh>>] :
                    cf \in FormatFamilies, st \in FormatSampleTypes, bits \in FormatBits,
                    ssw \in FormatSubSamplings, ssh \in FormatSubSamplings}

QueryVideoFormatID ==
    /\ last.op = "init"
    /\ FormatCommit([op |-> "queryVideoFormatID", args |-> last.args,
                     accepted |-> isValidVideoFormatCode(last.args[1], last.args[2],
                                                         last.args[3], last.args[4],
                                                         last.args[5]),
                     id |-> queryVideoFormatID(last.args[1], last.args[2], last.args[3],
                                               last.args[4], last.args[5])])

\* the ID queryVideoFormatID gave is handed back
QueryVideoFormatByID ==
    /\ last.op = "queryVideoFormatID"
    /\ \E r \in {queryVideoFormatByID(last.id)} :
          FormatCommit([op |-> "queryVideoFormatByID", args |-> last.args,
                        accepted |-> last.accepted, id |-> last.id, legacy |-> r.legacy,
                        ok |-> r.ok, f |-> r.f])

NextFormat ==
    \/ QueryVideoFormatID
    \/ QueryVideoFormatByID

SpecFormat == InitFormat /\ [][NextFormat]_vars

-----------------------------------------------------------------------------
(* The buffers of the Memory Pool: planes are constructed and destroyed one  *)
(* at a time and the limit is changed; each construction is one call of      *)
(* allocBuffer, each destruction one call of freeBuffer                      *)

\* the sizes planes are constructed with: 72 is a good fit for 64, 80 is not
BufferSizes == {64, 72, 80}

\* the blocks the pool is followed with, in use or freed
MaxBuffers == 3

\* what allocBuffer and freeBuffer found when they were called
Before == [buffers |-> memory.buffers, unusedBufferSize |-> memory.unusedBufferSize,
           heap |-> heap, used |-> memory.used]

BufferCommit(st, l) ==
    /\ memory' = st.memory
    /\ heap' = st.heap
    /\ planes' = st.planes
    /\ last' = l
    /\ UNCHANGED <<frames, guardSpace, threads, coreVars, apiVars>>

\* VSPlaneData(dataSize, mem): data = mem.allocBuffer(...); mem.add(size)
AllocBuffer(dataSize) ==
    /\ coreAlive
    /\ canNewPlane(CurState, dataSize + 4 * guardSpace)
    /\ \/ reuses(memory, dataSize + 4 * guardSpace)
       \/ Cardinality({b \in BlockIds : heap[b].state # "os"}) < MaxBuffers
    /\ \E r \in {newPlaneData(CurState, dataSize, guardSpace)} :
          BufferCommit(r.st, [op |-> "allocBuffer", bytes |-> dataSize + 4 * guardSpace,
                              buf |-> r.st.planes[r.plane].data, before |-> Before,
                              log |-> {}])

\* ~VSPlaneData: mem.freeBuffer(data); mem.subtract(size)
FreeBuffer(p) ==
    /\ coreAlive
    /\ planes[p].live
    /\ \E s \in deletePlaneData(CurState, p) :
          BufferCommit(s, [op |-> "freeBuffer", bytes |-> heap[planes[p].data].size,
                           buf |-> planes[p].data, before |-> Before, log |-> s.log])

InitBuffers == InitObjects /\ InitApi /\ guardSpace = 0

NextBuffers ==
    \/ \E dataSize \in BufferSizes : AllocBuffer(dataSize)
    \/ \E p \in PlaneIds : FreeBuffer(p)
    \/ \E bytes \in Limits : SetMaxMemoryUse(bytes)

SpecBuffers == InitBuffers /\ [][NextBuffers]_vars

-----------------------------------------------------------------------------
(* Registration: functions are registered under good and bad names, with good  *)
(* and bad argument and return strings, before and after the plugin is locked  *)

\* "2:int;", "a:int:bad;", "a:int[]:empty:empty;", "a:frame;", "a:int;b_1:aframe[]:opt;",
\* "a:int;b-1:int;"
RegisterArgStrings ==
    PluginArgStrings \cup
    {<<"2", ":", "i", "n", "t", ";">>,
     <<"a", ":", "i", "n", "t", ":", "b", "a", "d", ";">>,
     <<"a", ":", "i", "n", "t", "[", "]", ":", "e", "m", "p", "t", "y", ":", "e", "m", "p", "t", "y", ";">>,
     <<"a", ":", "f", "r", "a", "m", "e", ";">>,
     <<"a", ":", "i", "n", "t", ";", "b", "_", "1", ":", "a", "f", "r", "a", "m", "e", "[", "]", ":", "o", "p", "t", ";">>,
     <<"a", ":", "i", "n", "t", ";", "b", "-", "1", ":", "i", "n", "t", ";">>}

\* "", "r:int:bad;", "r:int;", "_r:int;"
RegisterReturnTypes ==
    PluginReturnTypes \cup
    {<<"r", ":", "i", "n", "t", ";">>, <<"_", "r", ":", "i", "n", "t", ";">>}

RegisterNames == {<<"f">>, <<"2", "g">>}

InitRegister ==
    /\ InitObjects /\ guardSpace = 0
    /\ plugin \in {NewPlugin(a, FALSE) : a \in {VAPOURSYNTH3_API_MAJOR, VAPOURSYNTH_API_MAJOR}}
    /\ registry = NewRegistry /\ logger = NewLogger /\ sched = NewSched("fmParallel", {})

NextRegister ==
    \/ \E name \in RegisterNames, args \in RegisterArgStrings, returnType \in RegisterReturnTypes :
          RegisterFunction(name, args, returnType)
    \/ Lock

SpecRegister == InitRegister /\ [][NextRegister]_vars

-----------------------------------------------------------------------------
(* Errors of a request: filters and the Core call setError on the contexts of  *)
(* the requests, any number of times and with any messages                     *)

\* a bug setError could have: every call stores its message
setError_overwrite(ctx, errorMsg) ==
    [ctx |-> [error |-> TRUE, errorMessage |-> errorMsg], prevState |-> ctx.error]

\* VSFrameContext::setError(errorMsg): the context it leaves and what it returns
setError(ctx, errorMsg) ==
    LET prevState == ctx.error
        ctx1 == [ctx EXCEPT !.error = TRUE]
    IN  [ctx |-> IF ~prevState THEN [ctx1 EXCEPT !.errorMessage = errorMsg] ELSE ctx1,
         prevState |-> prevState]

ErrorMessages == {"", "first", "second"}

SetError(n, errorMsg) ==
    \E r \in {setError(sched.frameContext[n], errorMsg)} :
        SchedCommit([sched EXCEPT !.frameContext[n] = r.ctx],
                    [op |-> "setError", n |-> n, errorMsg |-> errorMsg,
                     prevState |-> r.prevState])

InitError == InitObjects /\ InitApi /\ guardSpace = 0

NextError == \E n \in FrameNumbers, errorMsg \in ErrorMessages : SetError(n, errorMsg)

SpecError == InitError /\ [][NextError]_vars

-----------------------------------------------------------------------------
(* Frames and the Memory Pool: the properties *)

livePlanes(pl) == {p \in PlaneIds : pl[p].live}

ReadPtr(f, p) == getReadPtr(planes, frames[f], p, guardSpace)

\* the blocks of the freed-block map
freedBlocks(m) == {m.buffers[i].buf : i \in 1..Len(m.buffers)}

\* after copyFrame(f) gave g, the two frames read every plane at one address
C1_Shared ==
    last.op = "copyFrame" =>
        \A p \in 0..(frames[last.f].numPlanes - 1) : ReadPtr(last.g, p) = ReadPtr(last.f, p)

\* after writePtr(g, p), no other live frame reads plane p where g does
C1_Differs ==
    last.op = "getWritePtr" =>
        \A f \in FrameIds \ {last.f} :
            frames[f].live /\ last.p < frames[f].numPlanes =>
                ReadPtr(f, last.p) # ReadPtr(last.f, last.p)

\* writePtr(g, p) leaves every other frame as it was: its plane pointers, and
\* the plane data they name, which keeps its block and its size
C1_Unchanged ==
    last'.op = "getWritePtr" =>
        \A f \in FrameIds \ {last'.f} :
            frames[f].live =>
                /\ frames'[f] = frames[f]
                /\ \A p \in 0..(frames[f].numPlanes - 1) :
                      LET d == planeOf(frames[f], p)
                      IN  /\ getReadPtr(planes', frames'[f], p, guardSpace)
                               = getReadPtr(planes, frames[f], p, guardSpace)
                          /\ planes'[d].live
                          /\ planes'[d].size = planes[d].size
                          /\ heap'[planes[d].data] = heap[planes[d].data]
                          /\ heap[planes[d].data].state = "inuse"
                          /\ \A q \in livePlanes(planes') \ {d} :
                                planes'[q].data # planes'[d].data

\* C1: after copyFrame(f) yields g, readPtr(g, p) = readPtr(f, p) for every
\* plane p; after any writePtr(g, p) readPtr(g, p) differs from readPtr(f, p) of
\* every other live frame f, and readPtr(f, p) and the plane data it names are
\* unchanged
C1_CopyOnWrite == [](C1_Shared /\ C1_Differs) /\ [][C1_Unchanged]_vars

\* a frame's plane was cloned by writePtr while another frame shared it, and
\* the two frames still share another plane
C1_Witness ==
    /\ last.op = "getWritePtr" /\ last.g = 1
    /\ \E f \in FrameIds \ {last.f} :
          /\ frames[f].live /\ frames[f].numPlanes = 3 /\ frames[last.f].numPlanes = 3
          /\ \E q \in (0..2) \ {last.p} : ReadPtr(f, q) = ReadPtr(last.f, q)

\* C2: inUse() is the sum of the sizes of the live Plane Data, whatever planes
\* were constructed, cloned and released
C2_InUseIsSumOfLiveSizes == memory.used = SumSizes(planes, livePlanes(planes))

\* a frame was released and planes of it destroyed, while a plane that was
\* cloned from a plane of another frame is live
C2_Witness ==
    /\ last.op = "freeFrame" /\ last.log # {}
    /\ memory.used > 0
    /\ guardSpace > 0
    /\ \E p \in PlaneIds : planes[p].live /\ heap[planes[p].data].size = planes[p].size

C4_PoolDestroyedOnce ==
    /\ [](/\ memory.deleted <= 1
          /\ last.g = 0
          /\ memory.deleted > 0 =>
                 \A w \in Workers : ~(threads[w].pc = "idle" /\ threads[w].plane # 0))
    /\ [][memory'.deleted > memory.deleted => memory.freeOnZero /\ memory.used = 0]_vars

-----------------------------------------------------------------------------
(* The Core and its nodes: the properties *)

\* C5 as it is stated: the Core is deleted only when both the filter-instance
\* count and the pool's usage are zero, never while a plane of its pool is live
C5_CoreDeletedOnlyWhenUnused ==
    core.deleted > 0 => memory.used = 0 /\ \A p \in PlaneIds : ~planes[p].live

\* C5, amended: the Core is deleted when the filter-instance count reaches
\* zero, whatever the usage of the pool is; its destructor sets the pool's
\* freeOnZero, and the pool is deleted then only if its usage is zero
C5_CoreDeletedAtZeroInstances ==
    [][core'.deleted > core.deleted =>
          /\ core.numFilterInstances = 1 /\ core'.numFilterInstances = 0
          /\ core'.deleted = core.deleted + 1
          /\ memory'.freeOnZero
          /\ memory'.used = memory.used
          /\ memory'.deleted > 0 <=> memory.used = 0]_vars

\* the Core is deleted and a frame made through it is live, in the pool that
\* waits for it
C5_Witness ==
    /\ core.deleted = 1 /\ core.numFilterInstances = 0
    /\ memory.used > 0 /\ memory.freeOnZero /\ memory.deleted = 0
    /\ \E f \in FrameIds : frames[f].live

createOps == {"createVideoFilter", "createAudioFilter", "createFilter3"}

\* C6: whatever nodes are created, with or without success, and destroyed, the
\* filter-instance count is at least 1 and the Core is not deleted until freeCore
\* is called, the assert never fails, the Core is deleted exactly once, when
\* freeCore has been called and every created node is destroyed, and a second
\* freeCore is fatal
C6_CoreDeletedOnceAfterFreeCore ==
    /\ [](/\ ~core.coreFreed => core.numFilterInstances >= 1 /\ core.deleted = 0
          /\ ~core.assertFailed
          /\ core.deleted <= 1
          /\ ~core.terminated =>
                (core.deleted = 1 <=>
                    core.coreFreed /\ \A n \in NodeIds : nodes[n].state # "live"))
    /\ [][last'.op = "freeCore" /\ core.coreFreed => core'.terminated]_vars

\* C7: destroyFilterInstance calls a filter's free function only at free depth
\* 1 and never while another free function is executing on the thread
C7_FlatTeardown ==
    last.op = "freeNode" =>
        /\ \A i \in 1..Len(last.log) :
              last.log[i].kind = "free" =>
                  last.log[i].freeDepth = 1 /\ last.log[i].inFree = 0
        /\ freeDepth = 0 /\ nodeFreeList = <<>>

\* a free function destroyed two more nodes, and a free function called later
\* destroyed another: four free functions ran
C7_Witness ==
    /\ last.op = "freeNode"
    /\ Cardinality({i \in 1..Len(last.log) : last.log[i].kind = "free"}) >= 3
    /\ \E i \in 1..Len(last.log) :
          /\ last.log[i].kind = "destroy" /\ last.log[i].freeDepth = 2
          /\ last.log[i].inFree = 1
    /\ freeDepth = 0 /\ nodeFreeList = <<>>

\* C8: a live node's reference count is the number of its live output handles,
\* whatever path created it; a node is destroyed once, and no handle of a
\* destroyed node is live
C8_NodeOutlivesHandles ==
    /\ \A n \in NodeIds :
          /\ nodes[n].state = "live" =>
                nodes[n].refcount = Cardinality({r \in liveRefs(refs) : refs[r].clip = n})
          /\ nodes[n].destroyed <= 1
    /\ \A r \in liveRefs(refs) : nodes[refs[r].clip].state = "live"

\* C9: a creation that fails leaves an error in the output map, adds no handle
\* and leaves the filter-instance count as it was
C9_FailedCreationNoEffect ==
    last.op \in createOps /\ ~last.ok /\ ~last.fatal =>
        /\ liveRefs(refs) = last.refsBefore
        /\ core.numFilterInstances = last.before

Max(a, b) == IF a >= b THEN a ELSE b

\* no number above 1 divides both
Reduced(num, den) == \A d \in 2..Max(num, den) : ~(num % d = 0 /\ den % d = 0)

LegalFlags == {"nfNoCache", "nfIsCache", "nfMakeLinear", "nfFrameReady"}

illFormed(flags) ==
    ~(flags \subseteq LegalFlags) \/ ("nfIsCache" \in flags /\ "nfNoCache" \notin flags)

illDeclared(vi, numOutputs) ==
    \/ numOutputs < 1
    \/ \E i \in 1..numOutputs :
          ~Reduced(vi[i].fpsNum, vi[i].fpsDen) \/ ~(vi[i].width = 0 <=> vi[i].height = 0)

\* what the request of the last creation asks for breaks one of the rules
Violates(l) ==
    \/ illFormed(l.req.flags)
    \/ l.op = "createVideoFilter" /\ illDeclared(l.req.vi, l.req.numOutputs)
    \/ l.op = "createAudioFilter" /\ l.req.numOutputs < 1
    \/ l.op = "createFilter3"
          /\ \/ l.req.calls = <<>>
             \/ \E i \in 1..Len(l.req.calls) :
                   illDeclared(l.req.calls[i].vi, l.req.calls[i].numOutputs)

\* C10: every node that was created has at least one output, flags of the legal
\* subset, nfNoCache with nfIsCache, and video infos with a reduced frame rate
\* and with width and height both zero or both not; a request that breaks one of
\* these yields no node
C10_CreatedNodesAreValid ==
    /\ \A n \in NodeIds :
          nodes[n].state # "none" =>
              /\ getNumOutputs(nodes[n]) >= 1
              /\ ~illFormed(nodes[n].flags)
              /\ nodes[n].nodeType = "video" =>
                    ~illDeclared(nodes[n].vi, getNumOutputs(nodes[n]))
    /\ last.op \in createOps /\ Violates(last) =>
          ~last.ok /\ liveRefs(refs) = last.refsBefore /\ nodes[1] = NoNode

\* a cache node of two outputs was created, one of variable size and one with
\* the frame rate 5/2
C10_Witness ==
    /\ last.op = "createVideoFilter" /\ last.ok
    /\ nodes[last.node].flags = {"nfNoCache", "nfIsCache"}
    /\ getNumOutputs(nodes[last.node]) = 2
    /\ nodes[last.node].vi[1].width = 0 /\ nodes[last.node].vi[1].height = 0
    /\ nodes[last.node].vi[2].fpsNum = 5 /\ nodes[last.node].vi[2].fpsDen = 2
    /\ Cardinality(liveRefs(refs)) = 2

-----------------------------------------------------------------------------
(* Plugin functions: the properties *)

\* every declared argument is there unless optional, has the declared type and a
\* size the declaration allows, and every key of the map is declared
validArgs(fargs, map) ==
    /\ \A i \in 1..Len(fargs) :
          IF \E e \in map : e.key = fargs[i].name
          THEN \A e \in map : e.key = fargs[i].name =>
                  /\ e.type = fargs[i].type
                  /\ (~fargs[i].arr => e.size <= 1)
                  /\ (~fargs[i].empty => e.size >= 1)
          ELSE fargs[i].opt
    /\ \A e \in map : \E i \in 1..Len(fargs) : fargs[i].name = e.key

\* the function named exists and the map is valid for its arguments
validCall(funcName, map) ==
    \E f \in plugin.funcs : f.name = funcName /\ validArgs(f.args, map)

\* C11, as the spec states it: invoke calls the function if and only if the
\* name exists and the argument map is valid; otherwise the map returned
\* carries an error
C11_CalledIffValid ==
    last.op = "invoke" =>
        /\ last.called <=> validCall(last.funcName, last.map)
        /\ ~last.called => last.error # ""

\* a video node of the map has an output of a compat colour family
compatInput(map) == \E e \in map : e.type = "ptVideoNode" /\ e.compat

\* C11, amended: invoke calls the function if and only if the name exists, the
\* argument map is valid and, unless the plugin is marked compatible, the map
\* holds no video node of a compat colour family; otherwise the function is not
\* called and the map returned carries an error
C11_CalledIffValidAndNotCompat ==
    last.op = "invoke" =>
        /\ last.called <=> /\ validCall(last.funcName, last.map)
                           /\ (plugin.compat \/ ~compatInput(last.map))
        /\ ~last.called => last.error # ""

\* a function of two declared arguments was called with both in the map
C11_Witness ==
    /\ last.op = "invoke" /\ last.called
    /\ Cardinality(last.map) = 2
    /\ \E f \in plugin.funcs : f.name = last.funcName /\ Len(f.args) = 2

\* the map holds an audio node or an audio frame
holdsAudio(map) == \E e \in map : e.type \in {"ptAudioNode", "ptAudioFrame"}

\* C12: a function of the legacy generation is never called with a map that
\* holds an audio node or an audio frame: invoke on a legacy plugin and call on
\* a legacy function reference return an error and do not run the function
C12_LegacyNeverSeesAudio ==
    (last.op \in {"invoke", "call"} /\ last.apiMajor = VAPOURSYNTH3_API_MAJOR
        /\ holdsAudio(last.map))
    => (~last.called /\ last.error # "")

\* a registered function of a legacy plugin was invoked with a map that holds audio
C12_Witness ==
    /\ last.op = "invoke" /\ last.apiMajor = VAPOURSYNTH3_API_MAJOR
    /\ holdsAudio(last.map) /\ count(plugin.funcs, last.funcName)
    /\ ~last.called

Letters ==
    {"a", "b", "c", "d", "e", "f", "g", "h", "i", "j", "k", "l", "m", "n", "o", "p", "q",
     "r", "s", "t", "u", "v", "w", "x", "y", "z", "A", "B", "C", "D", "E", "F", "G", "H",
     "I", "J", "K", "L", "M", "N", "O", "P", "Q", "R", "S", "T", "U", "V", "W", "X", "Y", "Z"}

Digits == {"0", "1", "2", "3", "4", "5", "6", "7", "8", "9"}

\* s matches [A-Za-z][A-Za-z0-9_]*
matchesIdentifier(s) ==
    /\ Len(s) >= 1
    /\ s[1] \in Letters
    /\ \A i \in 2..Len(s) : s[i] \in Letters \cup Digits \cup {"_"}

\* C13, as the spec states it: registerFunction(name, ...) succeeds if and only
\* if name matches [A-Za-z][A-Za-z0-9_]*
C13_SucceedsIffIdentifier ==
    last.op = "registerFunction" => (last.ok <=> matchesIdentifier(last.name))

\* C13, amended: registerFunction(name, args, returnType) succeeds if and only
\* if the plugin is not read only, name matches [A-Za-z][A-Za-z0-9_]*, the
\* plugin has no function of that name yet, and args and returnType are both
\* argument strings the plugin's API generation accepts
C13_SucceedsIffRegistrable ==
    last.op = "registerFunction" =>
        (last.ok <=> /\ ~last.readOnly
                     /\ matchesIdentifier(last.name)
                     /\ \A f \in last.funcs : f.name # last.name
                     /\ parseArgString(last.args, plugin.apiMajor).ok
                     /\ parseArgString(last.returnType, plugin.apiMajor).ok)

\* a function with two arguments was registered
C13_Witness ==
    /\ last.op = "registerFunction" /\ last.ok
    /\ \E f \in plugin.funcs : f.name = last.name /\ Len(f.args) = 2

\* C17: for a valid argument string of the current generation with no audio
\* type, parsing what getV3ArgString emits under the legacy generation gives
\* the arguments that parsing the string under the current generation gives:
\* the same names, types and array, opt and empty flags in the same order
C17_RoundTrip ==
    last.op = "getV3ArgString" =>
        /\ parseArgString(last.argString, VAPOURSYNTH_API_MAJOR).ok
        /\ parseArgString(last.s, VAPOURSYNTH3_API_MAJOR).ok
        /\ parseArgString(last.s, VAPOURSYNTH3_API_MAJOR).args
              = parseArgString(last.argString, VAPOURSYNTH_API_MAJOR).args

\* the string of two arguments, an array of video nodes that may be left out or
\* be empty among them, was emitted for the legacy generation
C17_Witness ==
    /\ last.op = "getV3ArgString"
    /\ LET args == parseArgString(last.argString, VAPOURSYNTH_API_MAJOR).args
       IN  /\ Len(args) = 2
           /\ \E i \in 1..2 : /\ args[i].type = "ptVideoNode"
                              /\ args[i].arr /\ args[i].opt /\ args[i].empty

-----------------------------------------------------------------------------
(* The plugin registry: the properties *)

\* no two registered plugins share an ID, no two share a namespace
UniquePlugins ==
    \A p, q \in registry.plugins : (p.id = q.id \/ p.ns = q.ns) => p = q

\* C14: whatever threads load plugins, no two registered plugins share an ID
\* and no two share a namespace, and a loadPlugin that is rejected leaves the
\* registry as it was
C14_RegistryUnique ==
    /\ []UniquePlugins
    /\ [][(last'.op = "loadPlugin" /\ ~last'.ok) => registry'.plugins = registry.plugins]_vars

\* a plugin was rejected for its namespace after another thread had a plugin
\* of that namespace registered, while it was inside loadPlugin itself
C14_Witness ==
    /\ last.op = "loadPlugin" /\ ~last.ok /\ last.error = "namespace already populated"
    /\ \E p \in registry.plugins \ InternalPlugins : p.ns = last.ns /\ p.id # last.id
    /\ Cardinality(registry.plugins) = Cardinality(InternalPlugins) + 1

-----------------------------------------------------------------------------
(* The limit of the Memory Pool: the properties *)

\* C15, as the spec states it: after a setLimit call limit() is the value
\* passed, clamped to SIZE_MAX, and nothing else changes it
C15_LimitIsLastValue ==
    [][/\ last'.op = "setMaxMemoryUse" =>
             getLimit(memory') = IF last'.g > SIZE_MAX THEN SIZE_MAX ELSE last'.g
       /\ last'.op # "setMaxMemoryUse" => getLimit(memory') = getLimit(memory)]_vars

\* C15, amended: after a setLimit call limit() is the value passed if that is
\* positive and at most SIZE_MAX, and is what it was before the call otherwise;
\* nothing else changes it. So limit() is the last such value passed, or the
\* constructor's default when there was none
C15_LimitIsLastAcceptedValue ==
    [][/\ last'.op = "setMaxMemoryUse" =>
             getLimit(memory') = IF last'.g > 0 /\ last'.g <= SIZE_MAX THEN last'.g
                                 ELSE getLimit(memory)
       /\ last'.op # "setMaxMemoryUse" => getLimit(memory') = getLimit(memory)]_vars

\* the limit was set to 192 bytes and a later call with zero left it there
C15_Witness ==
    /\ last.op = "setMaxMemoryUse" /\ last.g = 0
    /\ getLimit(memory) = 192

-----------------------------------------------------------------------------
(* The message handlers: the properties *)

\* the threads between taking logMutex and giving it back
insideLog == {t \in ThreadIds : logger.calls[t].pc = "locked"}

\* the handlers of a sequence of calls, and whether none is called twice
called(notified) == {notified[i] : i \in 1..Len(notified)}

onceEach(notified) == Cardinality(called(notified)) = Len(notified)

\* C16: the dispatch of a logMessage call runs with the log mutex held, so at
\* most one thread is inside logMessage, addMessageHandler or
\* removeMessageHandler and the handler set does not change under a dispatch;
\* a call that is through has called each handler that was registered when it
\* took the mutex exactly once; the process is terminated only by a fatal
\* message whose dispatch is through
C16_DispatchUnderMutex ==
    /\ Cardinality(insideLog) <= 1
    /\ \A t \in insideLog :
          /\ logger.logMutex = t
          /\ logger.calls[t].fn = "logMessage" =>
                /\ logger.messageHandlers = logger.calls[t].registered
                /\ onceEach(logger.calls[t].notified)
                /\ called(logger.calls[t].notified) \subseteq logger.calls[t].registered
    /\ last.op = "logMessage" =>
          onceEach(last.notified) /\ called(last.notified) = last.registered
    /\ core.terminated =>
          /\ last.op = "logMessage" /\ last.type = "mtFatal"
          /\ onceEach(last.notified) /\ called(last.notified) = last.registered

\* a fatal message was dispatched to two handlers and terminated the process
\* while another thread was waiting to log a message of its own
C16_Witness ==
    /\ core.terminated
    /\ last.op = "logMessage" /\ last.type = "mtFatal"
    /\ Len(last.notified) = 2
    /\ \E t \in ThreadIds : logger.calls[t].pc = "lock" /\ logger.calls[t].fn = "logMessage"

-----------------------------------------------------------------------------
(* The scheduler: the properties *)

\* the workers that are inside the node's frame callback
inCallback == {w \in Workers : sched.running[w] # -1}

\* C18: for a node with filter mode fmUnordered no two invocations of its frame
\* callback overlap: at most one worker is inside the callback, and it holds
\* the node's mutex
C18_UnorderedExcludes ==
    sched.filterMode = "fmUnordered" =>
        /\ Cardinality(inCallback) <= 1
        /\ \A w \in inCallback : sched.serialMutex = w

\* a worker is inside the callback of an fmUnordered node while the other
\* worker is free and a second task is ready, after a first frame is complete
C18_Witness ==
    /\ sched.filterMode = "fmUnordered" /\ ~linear(sched)
    /\ Cardinality(inCallback) = 1
    /\ \E w \in Workers : sched.running[w] = -1
    /\ \E n \in FrameNumbers : sched.tasks[n] \in {"ready", "resumable"}
    /\ Len(sched.completed) = 1

\* C19: for a node with nfMakeLinear the frames are completed in strictly
\* ascending frame number, whatever the order of the requests
C19_LinearAscending ==
    "nfMakeLinear" \in sched.flags =>
        \A i, j \in 1..Len(sched.completed) :
            i < j => sched.completed[i] < sched.completed[j]

\* three frames of an nfMakeLinear node were requested in descending order
\* and all three are complete
C19_Witness ==
    /\ "nfMakeLinear" \in sched.flags /\ sched.filterMode = "fmParallel"
    /\ sched.submitted = <<2, 1, 0>>
    /\ Len(sched.completed) = 3

-----------------------------------------------------------------------------
(* Audio nodes: the properties *)

\* frames * VS_AUDIO_FRAME_SAMPLES >= n, for a sample count n
covers(numFrames, n) == numFrames > n.hi \/ (numFrames = n.hi /\ n.lo = 0)

\* full frames of VS_AUDIO_FRAME_SAMPLES samples and one frame of length
\* samples, 1 <= length <= VS_AUDIO_FRAME_SAMPLES, as a sample count
samplesOf(full, length) ==
    IF length = VS_AUDIO_FRAME_SAMPLES THEN [hi |-> full + 1, lo |-> 0]
    ELSE [hi |-> full, lo |-> length]

\* the lengths the Core requires of frames 0..n-1, added up one by one
RECURSIVE sumExpected(_, _)
sumExpected(lai, n) ==
    IF n = 0 THEN [hi |-> 0, lo |-> 0]
    ELSE LET before == sumExpected(lai, n - 1)
             total == before.lo + expectedSamples(n - 1, lai)
         IN  IF total >= VS_AUDIO_FRAME_SAMPLES
             THEN [hi |-> before.hi + 1, lo |-> total - VS_AUDIO_FRAME_SAMPLES]
             ELSE [hi |-> before.hi, lo |-> total]

\* the frame counts for which the lengths are added up one by one
MaxSummed == 3

\* the audio outputs of the live nodes
audioOutputs ==
    UNION { {nodes[id].vi[i] : i \in 1..Len(nodes[id].vi)} :
            id \in {x \in NodeIds : nodes[x].state = "live" /\ nodes[x].nodeType = "audio"} }

\* C20: for an audio node that declares numSamples samples, 1 <= numSamples <=
\* INT_MAX * 3072, numFrames is ceil(numSamples / 3072) and fits an int; the
\* length the Core requires is 3072 for every frame but the last and from 1 to
\* 3072 for the last, the required lengths add up to numSamples, and a frame
\* of another length is fatal
C20_AudioFrameLengths ==
    /\ \A lai \in audioOutputs :
          (~samplesBelowOne(lai.numSamples) /\ ~samplesAboveMax(lai.numSamples)) =>
             /\ covers(lai.numFrames, lai.numSamples)
             /\ ~covers(lai.numFrames - 1, lai.numSamples)
             /\ lai.numFrames >= 1 /\ lai.numFrames <= INT_MAX
             /\ \A n \in RequestedFrames :
                   n < lai.numFrames - 1 => expectedSamples(n, lai) = VS_AUDIO_FRAME_SAMPLES
             /\ expectedSamples(lai.numFrames - 1, lai) \in 1..VS_AUDIO_FRAME_SAMPLES
             /\ samplesOf(lai.numFrames - 1, expectedSamples(lai.numFrames - 1, lai))
                   = lai.numSamples
             /\ lai.numFrames <= MaxSummed =>
                   sumExpected(lai, lai.numFrames) = lai.numSamples
    /\ (last.op = "getFrameInternal" /\ ~last.returned.null) =>
          LET lai == nodes[last.node].vi[last.index]
          IN  /\ last.expected = expectedSamples(last.n, lai)
              /\ last.returned.length # last.expected => last.fatal
              /\ ~last.fatal => last.returned.length = last.expected

\* the last frame of a node of INT_MAX frames, a single sample long, was
\* returned with that length and accepted
C20_Witness ==
    /\ last.op = "getFrameInternal" /\ ~last.returned.null /\ ~last.fatal
    /\ nodes[last.node].vi[last.index].numSamples = [hi |-> INT_MAX - 1, lo |-> 1]
    /\ nodes[last.node].vi[last.index].numFrames = INT_MAX
    /\ last.n = INT_MAX - 1 /\ last.returned.length = 1

-----------------------------------------------------------------------------
(* Video format IDs: the properties *)

\* C21: the ID of a format isValidVideoFormat accepts is never taken for a
\* legacy ID and is decoded to the five fields it was made of
C21_FormatIdRoundTrip ==
    (last.op = "queryVideoFormatByID" /\ last.accepted) =>
        /\ ~last.legacy
        /\ last.ok
        /\ last.f = last.args

\* C30: isValidVideoFormat accepts the undefined colour family exactly when the
\* sample type is integer and bits per sample and both sub-samplings are zero
C30_UndefinedAcceptedIffZero ==
    (last.op = "queryVideoFormatID" /\ last.args[1] = VSColorFamily("cfUndefined")) =>
        (last.accepted <=>
            /\ last.args[2] = VSSampleType("stInteger")
            /\ last.args[3] = 0 /\ last.args[4] = 0 /\ last.args[5] = 0)

-----------------------------------------------------------------------------
(* The buffers of the Memory Pool: the properties *)

\* the freed blocks of at least bytes bytes that allocBuffer found in the map
fitting(bufs, bytes) == {i \in 1..Len(bufs) : bufs[i].size >= bytes}

\* a smallest one of them
smallest(bufs, bytes) ==
    CHOOSE i \in fitting(bufs, bytes) :
        \A j \in fitting(bufs, bytes) : bufs[i].size <= bufs[j].size

\* the blocks in the freed-block map
mapped(bufs) == {bufs[i].buf : i \in 1..Len(bufs)}

\* the sizes of the freed blocks, added up
RECURSIVE SumKeys(_)
SumKeys(bufs) == IF bufs = <<>> THEN 0 ELSE Head(bufs).size + SumKeys(Tail(bufs))

\* C22: allocBuffer(bytes) reuses a freed block exactly when the smallest freed
\* block of size >= bytes exists and has size <= bytes + bytes / 8, and then the
\* block leaves the freed map; otherwise it allocates a fresh block that
\* records size bytes and leaves the map unchanged. The block returned is not
\* smaller than bytes and was in nobody's hands
C22_ReusesExactlyGoodFit ==
    last.op = "allocBuffer" =>
        LET found == last.before.buffers
            goodFit == /\ fitting(found, last.bytes) # {}
                       /\ found[smallest(found, last.bytes)].size
                             <= last.bytes + last.bytes \div 8
        IN  /\ goodFit <=> last.buf \in mapped(found)
            /\ goodFit =>
                  /\ last.before.heap[last.buf].state = "freed"
                  /\ heap[last.buf].size = found[smallest(found, last.bytes)].size
                  /\ Len(memory.buffers) = Len(found) - 1
                  /\ mapped(memory.buffers) = mapped(found) \ {last.buf}
            /\ ~goodFit =>
                  /\ last.before.heap[last.buf].state = "os"
                  /\ heap[last.buf].size = last.bytes
                  /\ memory.buffers = found
            /\ heap[last.buf].size >= last.bytes
            /\ heap[last.buf].state = "inuse"
            /\ Cardinality({p \in PlaneIds : planes[p].live /\ planes[p].data = last.buf}) = 1

\* a request of 64 bytes was served with a freed block of 72 bytes while a smaller
\* request could not have been, and another freed block stayed in the map
C22_Witness ==
    /\ last.op = "allocBuffer" /\ last.bytes = 64
    /\ last.buf \in mapped(last.before.buffers)
    /\ heap[last.buf].size = 72
    /\ memory.buffers # <<>>

\* C23: when freeBuffer returns, the freed-block map is empty or the usage it
\* read plus the total size of the freed blocks is at most the limit; only
\* freed blocks were handed back to the OS, never a buffer in use
C23_EvictsDownToLimit ==
    last.op = "freeBuffer" =>
        /\ \/ memory.buffers = <<>>
           \/ last.before.used + memory.unusedBufferSize <= memory.maxMemoryUse
        /\ \A b \in BlockIds :
              (last.before.heap[b].state = "inuse" /\ b # last.buf) =>
                  heap[b] = last.before.heap[b]
        /\ \A e \in last.log :
              e.kind = "evict" =>
                  /\ e.buf \in mapped(last.before.buffers) \cup {last.buf}
                  /\ heap[e.buf].state = "os"
        /\ Cardinality({e \in last.log : e.kind = "evict"}) <= Len(last.before.buffers) + 1

\* freeBuffer handed one freed block back to the OS and stopped with a block
\* still in the map, while another buffer was in use
C23_Witness ==
    /\ last.op = "freeBuffer"
    /\ Cardinality({e \in last.log : e.kind = "evict"}) = 1
    /\ Len(memory.buffers) = 1
    /\ \E b \in BlockIds : heap[b].state = "inuse"

\* C29: unusedBufferSize is the sum of the keys of the freed-block map, and the
\* key of each freed block is the size its header records
C29_UnusedIsSumOfKeys ==
    /\ memory.unusedBufferSize = SumKeys(memory.buffers)
    /\ \A i \in 1..Len(memory.buffers) :
          /\ memory.buffers[i].size = heap[memory.buffers[i].buf].size
          /\ heap[memory.buffers[i].buf].state = "freed"
    /\ \A i, j \in 1..Len(memory.buffers) :
          i < j => memory.buffers[i].buf # memory.buffers[j].buf

\* a block of 72 bytes was reused for 64 bytes and freed again: it is in the map
\* under 72, next to a block of another size, after an eviction
C29_Witness ==
    /\ last.op = "freeBuffer" /\ last.bytes = 72
    /\ last.before.heap[last.buf].state = "inuse"
    /\ Len(memory.buffers) = 2
    /\ memory.buffers[1].size # memory.buffers[2].size
    /\ memory.unusedBufferSize > 0

-----------------------------------------------------------------------------
(* Teardown: what the outermost destroyFilterInstance leaves behind            *)

\* the entries of the last call's log of one kind that are about node n
entries(kind, n) ==
    {i \in 1..Len(last.log) : last.log[i].kind = kind /\ last.log[i].node = n}

destroyedNodes == {n \in NodeIds : entries("destroy", n) # {}}

\* C24: when the outermost destroyFilterInstance of a thread has returned, the
\* pending-free list is empty; every node destroyed during the call, directly or
\* from inside a free function, was counted down exactly once, and a node with a
\* free function had that function called exactly once, before its count-down
C24_EveryDestroyedNodeFreedOnce ==
    last.op = "freeNode" =>
        /\ freeDepth = 0 /\ nodeFreeList = <<>>
        /\ core.numFilterInstances = last.before - Cardinality(destroyedNodes)
        /\ \A n \in NodeIds :
              /\ Cardinality(entries("decrement", n)) = Cardinality(entries("destroy", n))
              /\ Cardinality(entries("destroy", n)) <= 1
              /\ entries("free", n) # {} => n \in destroyedNodes /\ nodes[n].hasFree
              /\ n \in destroyedNodes /\ nodes[n].hasFree =>
                    /\ Cardinality(entries("free", n)) = 1
                    /\ \A i \in entries("free", n), j \in entries("decrement", n) : i < j
                    /\ \A i \in entries("destroy", n), j \in entries("free", n) : i < j

\* one release destroyed a node whose free function destroyed two more: one
\* with a free function, which waited on the list, and one without, which was
\* counted down from inside the free function
C24_Witness ==
    /\ last.op = "freeNode" /\ nodeFreeList = <<>>
    /\ Cardinality(destroyedNodes) = 3
    /\ \E n \in destroyedNodes :
          /\ ~nodes[n].hasFree
          /\ \E i \in entries("decrement", n) : last.log[i].inFree = 1
    /\ \E n \in destroyedNodes :
          /\ nodes[n].hasFree
          /\ \E i \in entries("destroy", n) : last.log[i].freeDepth = 2
          /\ \E i \in entries("free", n) : last.log[i].freeDepth = 1

-----------------------------------------------------------------------------
(* Frames: what getWritePtr changes                                            *)

\* the frames that read plane q where frame g does
sharers(fr, pl, g, q) ==
    {f \in FrameIds \ {g} :
        /\ fr[f].live /\ q < fr[f].numPlanes
        /\ getReadPtr(pl, fr[f], q, guardSpace) = getReadPtr(pl, fr[g], q, guardSpace)}

\* C25: writePtr(p) on a video frame changes plane p of that frame alone: every
\* other plane of the frame is read where it was and by the frames that shared
\* it, and every other frame keeps its plane pointers and their plane data
C25_WritePtrChangesOnePlane ==
    [][last'.op = "getWritePtr" /\ frames[last'.f].contentType = "video" =>
          /\ \A q \in (0..(frames[last'.f].numPlanes - 1)) \ {last'.p} :
                /\ planeOf(frames'[last'.f], q) = planeOf(frames[last'.f], q)
                /\ planes'[planeOf(frames[last'.f], q)].live
                /\ getReadPtr(planes', frames'[last'.f], q, guardSpace)
                     = getReadPtr(planes, frames[last'.f], q, guardSpace)
                /\ sharers(frames', planes', last'.f, q) = sharers(frames, planes, last'.f, q)
          /\ \A f \in FrameIds \ {last'.f} :
                /\ frames'[f] = frames[f]
                /\ frames[f].live =>
                      \A q \in 0..(frames[f].numPlanes - 1) :
                          /\ planes'[planeOf(frames[f], q)].live
                          /\ getReadPtr(planes', frames'[f], q, guardSpace)
                               = getReadPtr(planes, frames[f], q, guardSpace)]_vars

\* writePtr cloned plane 0 of a copy of a three-plane frame: the two frames read
\* plane 0 at different addresses and still share planes 1 and 2
C25_Witness ==
    /\ last.op = "getWritePtr" /\ last.g = 1 /\ last.p = 0
    /\ frames[last.f].contentType = "video" /\ frames[last.f].numPlanes = 3
    /\ \E f \in FrameIds \ {last.f} :
          /\ frames[f].live /\ frames[f].numPlanes = 3
          /\ ReadPtr(f, 0) # ReadPtr(last.f, 0)
          /\ f \in sharers(frames, planes, last.f, 1)
          /\ f \in sharers(frames, planes, last.f, 2)

\* C26: writePtr clones a plane exactly when it is not uniquely owned; on a
\* uniquely owned plane nothing is allocated, inUse() stays and the pointer is
\* the one readPtr gave before; after writePtr the plane is uniquely owned, so a
\* second writePtr on the frame and plane gives the pointer of the first
C26_ClonesOnlyShared ==
    /\ [][last'.op = "getWritePtr" =>
            LET old == planeOf(frames[last'.f], last'.p)
            IN  /\ last'.g = 1 <=> planes[old].refcount # 1
                /\ last'.g = 1 <=> planeOf(frames'[last'.f], last'.p) # old
                /\ planes[old].refcount = 1 =>
                      /\ memory' = memory /\ heap' = heap /\ planes' = planes
                      /\ frames' = frames
                      /\ getReadPtr(planes', frames'[last'.f], last'.p, guardSpace)
                           = getReadPtr(planes, frames[last'.f], last'.p, guardSpace)
                /\ last.op = "getWritePtr" /\ last.f = last'.f /\ last.p = last'.p =>
                      /\ last'.g = 0
                      /\ getReadPtr(planes', frames'[last'.f], last'.p, guardSpace)
                           = getReadPtr(planes, frames[last'.f], last'.p, guardSpace)]_vars
    /\ [](last.op = "getWritePtr" => planes[planeOf(frames[last.f], last.p)].refcount = 1)

\* writePtr was called on a plane the frame owned alone, while another plane of
\* the frame was shared with a second frame
C26_Witness ==
    /\ last.op = "getWritePtr" /\ last.g = 0
    /\ memory.used > 0
    /\ \E q \in 0..(frames[last.f].numPlanes - 1) :
          q # last.p /\ sharers(frames, planes, last.f, q) # {}

-----------------------------------------------------------------------------
(* Registration: what makes registerFunction fail                              *)

\* the type names of an API generation
TypeNames(apiMajor) ==
    {<<"i", "n", "t">>, <<"f", "l", "o", "a", "t">>, <<"d", "a", "t", "a">>,
     <<"f", "u", "n", "c">>}
    \cup (IF apiMajor = VAPOURSYNTH3_API_MAJOR
          THEN {<<"c", "l", "i", "p">>, <<"f", "r", "a", "m", "e">>}
          ELSE {<<"v", "n", "o", "d", "e">>, <<"a", "n", "o", "d", "e">>,
                <<"v", "f", "r", "a", "m", "e">>, <<"a", "f", "r", "a", "m", "e">>})

isArray(t) == Len(t) > 2 /\ t[Len(t) - 1] = "[" /\ t[Len(t)] = "]"

elementType(t) == IF isArray(t) THEN SubSeq(t, 1, Len(t) - 2) ELSE t

\* name:type[:modifier...] has an invalid name, a type name the generation does
\* not know, a modifier twice, an unknown modifier, or empty on a non-array type
flawedArg(parts, apiMajor) ==
    /\ Len(parts) >= 2
    /\ \/ ~matchesIdentifier(parts[1])
       \/ elementType(parts[2]) \notin TypeNames(apiMajor)
       \/ \E i, j \in 3..Len(parts) : i # j /\ parts[i] = parts[j]
       \/ \E i \in 3..Len(parts) : parts[i] \notin {<<"o", "p", "t">>, <<"e", "m", "p", "t", "y">>}
       \/ /\ \E i \in 3..Len(parts) : parts[i] = <<"e", "m", "p", "t", "y">>
          /\ ~isArray(parts[2])

\* some argument of the string is flawed
flawed(argString, apiMajor) ==
    \E i \in 1..Len(split(argString, ";", 0)) :
        flawedArg(split(split(argString, ";", 0)[i], ":", 0), apiMajor)

\* C27: registerFunction fails and leaves the function table as it was whenever
\* the plugin is read only, the name is registered already, or the argument or
\* the return string has an argument with an invalid name, a type name unknown
\* to the plugin's API generation, a modifier twice, an unknown modifier, or
\* empty on a non-array type; the earlier function of that name stays
C27_RejectedRegistrationChangesNothing ==
    last.op = "registerFunction"
    /\ (\/ last.readOnly
        \/ \E f \in last.funcs : f.name = last.name
        \/ flawed(last.args, plugin.apiMajor)
        \/ flawed(last.returnType, plugin.apiMajor))
    => ~last.ok /\ plugin.funcs = last.funcs

\* a valid registration under a name that is registered with another argument
\* string was refused, and the earlier function is in place
C27_Witness ==
    /\ last.op = "registerFunction" /\ ~last.ok /\ ~last.readOnly
    /\ ~flawed(last.args, plugin.apiMajor) /\ ~flawed(last.returnType, plugin.apiMajor)
    /\ parseArgString(last.args, plugin.apiMajor).ok
    /\ \E f \in plugin.funcs : f.name = last.name /\ f.argString # last.args

-----------------------------------------------------------------------------
(* Errors of a request: the first error stays                                  *)

\* C28: over any sequence of setError calls on a request context the error flag
\* is set by the first call and never reset, the message stored is that of the
\* first call and no later call overwrites it, and each call returns whether an
\* error was set before it
C28_FirstErrorStays ==
    /\ [](\A n \in FrameNumbers :
            ~sched.frameContext[n].error => sched.frameContext[n].errorMessage = "")
    /\ [][/\ \A n \in FrameNumbers :
               sched.frameContext[n].error =>
                   /\ sched'.frameContext[n].error
                   /\ sched'.frameContext[n].errorMessage = sched.frameContext[n].errorMessage
          /\ last'.op = "setError" =>
                /\ sched'.frameContext[last'.n].error
                /\ last'.prevState = sched.frameContext[last'.n].error
                /\ ~sched.frameContext[last'.n].error =>
                      sched'.frameContext[last'.n].errorMessage = last'.errorMsg
                /\ \A n \in FrameNumbers \ {last'.n} :
                      sched'.frameContext[n] = sched.frameContext[n]]_vars

\* a second error was set on a context with another message: the call returned
\* true and the context holds the first message, while another context has none
C28_Witness ==
    /\ last.op = "setError" /\ last.prevState
    /\ sched.frameContext[last.n].error
    /\ sched.frameContext[last.n].errorMessage = "first" /\ last.errorMsg = "second"
    /\ \E n \in FrameNumbers : ~sched.frameContext[n].error

====
